---- MODULE Spec2Model ----
(***************************************************************************)
(* A model of internal/model/model.go: the Model registry (repositories,   *)
(* the repo <-> node sharing graph, connections), the inbound protocol     *)
(* callbacks (Index, IndexUpdate, ClusterConfig, Request, Close), the      *)
(* index sender tasks, the scanner driver, Override and the repo state     *)
(* machine.  The collaborators that model.go only calls (files.Set,        *)
(* lamport, ignore, scanner, protocol.FileInfo) are modelled from their    *)
(* documented contracts.                                                   *)
(***************************************************************************)
EXTENDS Integers, Sequences, FiniteSets, TLC

(***************************************************************************)
(* Bounds of the model.                                                    *)
(***************************************************************************)
MaxClock == 6        \* the lamport clock is not ticked beyond this value
MaxLocalVer == 3     \* no replica's localVersion watermark grows beyond this
MaxInVersion == 2    \* versions carried by inbound FileInfos are 1..MaxInVersion
MaxListLen == 2      \* nodeRepos[n] / repoNodes[r] hold at most this many items
MaxTime == 2         \* wall clock values are 0..MaxTime
MaxConns == 2        \* connections made in one run

(***************************************************************************)
(* Program constants (model.go:59-65).                                     *)
(***************************************************************************)
indexTargetSize == 256000
indexPerFileSize == 250
IndexPerBlockSize == 40
indexBatchSize == 1000

(***************************************************************************)
(* Identities.  LocalNodeID is the reserved id of this node.               *)
(***************************************************************************)
LocalNodeID == "local"
Nodes == {"n1", "n2"}
AllNodes == Nodes \cup {LocalNodeID}
Repos == {"r1", "r2"}
NameOrder == <<"a", "ab">>         \* file names in lexicographic order
Names == {NameOrder[i] : i \in 1..Len(NameOrder)}
BigBlocks == 6400                  \* block count of a file of about 800 MiB
FlagDeleted == "Deleted"
FlagInvalid == "Invalid"

\* NodeIDs are totally ordered; the rank gives the order.
NodeRank(n) == CASE n = "n1" -> 1 [] n = "n2" -> 2 [] OTHER -> 3

(***************************************************************************)
(* protocol.FileInfo.  blocks is the number of BlockInfos; a block covers  *)
(* one unit of file size.  The zero value is what Get returns for a name   *)
(* the replica does not hold.                                              *)
(***************************************************************************)
ZeroFile == [name |-> "", flags |-> {}, version |-> 0, localVersion |-> 0, blocks |-> 0]

FileInfo(n, fl, v, b) ==
    [name |-> n, flags |-> fl, version |-> v, localVersion |-> 0, blocks |-> b]

IsDeleted(f) == FlagDeleted \in f.flags
IsInvalid(f) == FlagInvalid \in f.flags

\* protocol.FileInfo.Size: the sum of the block sizes.
FileSize(f) == f.blocks

\* The content of an entry: the entry without its replica-local sequence number.
Content(f) == [f EXCEPT !.localVersion = 0]

(***************************************************************************)
(* lamport.Default.Tick(v) on clock value c: max(c, v) + 1.                *)
(***************************************************************************)
TickVal(c, v) == IF v > c THEN v + 1 ELSE c + 1

(***************************************************************************)
(* files.Set: one replica per node, each a map name -> FileInfo, and the   *)
(* replica's localVersion watermark.                                       *)
(***************************************************************************)
EmptyReplica == [n \in Names |-> ZeroFile]
EmptySet == [files |-> [nd \in AllNodes |-> EmptyReplica],
             lv    |-> [nd \in AllNodes |-> 0]]

\* The names a replica holds.
Have(set, node) == {n \in Names : set.files[node][n].name # ""}

Get(set, node, name) ==
    IF name \in Names THEN set.files[node][name] ELSE ZeroFile

LocalVersionOf(set, node) == set.lv[node]

\* The last entry of fs with the given name (ZeroFile when there is none).
RECURSIVE EntryFor(_, _)
EntryFor(fs, name) ==
    IF fs = <<>> THEN ZeroFile
    ELSE IF fs[Len(fs)].name = name THEN fs[Len(fs)]
    ELSE EntryFor(SubSeq(fs, 1, Len(fs) - 1), name)

SeqNames(fs) == {fs[i].name : i \in 1..Len(fs)}

\* The position of a name in the traversal order.
NamePos(name) == CHOOSE i \in 1..Len(NameOrder) : NameOrder[i] = name

\* How many of the names in S come before or at name in traversal order.
RankIn(S, name) == Cardinality({n \in S : NamePos(n) <= NamePos(name)})

\* Update: upsert; every inserted entry gets the replica's next localVersion.
Update(set, node, fs) ==
    LET ins == SeqNames(fs) \cap Names
    IN [files |-> [set.files EXCEPT ![node] =
                     [n \in Names |->
                        IF n \in ins
                        THEN [EntryFor(fs, n) EXCEPT
                                 !.localVersion = set.lv[node] + RankIn(ins, n)]
                        ELSE set.files[node][n]]],
        lv    |-> [set.lv EXCEPT ![node] = set.lv[node] + Cardinality(ins)]]

\* Replace: the replica becomes exactly fs.
Replace(set, node, fs) ==
    Update([set EXCEPT !.files[node] = EmptyReplica], node, fs)

\* The node whose entry for name wins: greatest version, then greatest NodeID.
GlobalOwner(set, name) ==
    LET holders == {nd \in AllNodes : set.files[nd][name].name # ""}
    IN CHOOSE nd \in holders :
         \A o \in holders :
            \/ set.files[nd][name].version > set.files[o][name].version
            \/ /\ set.files[nd][name].version = set.files[o][name].version
               /\ NodeRank(nd) >= NodeRank(o)

HasGlobal(set, name) == \E nd \in AllNodes : set.files[nd][name].name # ""

GetGlobal(set, name) ==
    IF name \in Names /\ HasGlobal(set, name)
    THEN set.files[GlobalOwner(set, name)][name]
    ELSE ZeroFile

\* need(node): the names where the node's replica lags a valid global entry.
Need(set, node) ==
    {n \in Names : /\ HasGlobal(set, n)
                   /\ GetGlobal(set, n).version > set.files[node][n].version
                   /\ ~IsInvalid(GetGlobal(set, n))}

\* The entries of a set of names as a sequence in traversal order.
RECURSIVE InOrder(_, _, _)
InOrder(f, S, i) ==
    IF i > Len(NameOrder) THEN <<>>
    ELSE IF NameOrder[i] \in S
         THEN <<f[NameOrder[i]]>> \o InOrder(f, S, i + 1)
         ELSE InOrder(f, S, i + 1)

\* WithHave(node): the replica's entries in traversal order.
WithHave(set, node) == InOrder(set.files[node], Have(set, node), 1)

\* WithNeed(node): the global entries of need(node) in traversal order.
WithNeed(set, node) ==
    InOrder([n \in Names |-> GetGlobal(set, n)], Need(set, node), 1)

(***************************************************************************)
(* The state of a Model (model.go:67-95) and of its environment.           *)
(***************************************************************************)
VARIABLES
    repoCfgs,          \* repo -> cfg (its Nodes list); the registered repos
    repoFiles,         \* repo -> files.Set (backed by the database)
    repoNodes,         \* repo -> list of nodeIDs
    nodeRepos,         \* nodeID -> list of repos (no entry: the empty list)
    nodeStatRefs,      \* the nodeIDs that have a statistics reference
    repoIgnores,       \* repo -> the names its ignore patterns match
    repoState,         \* repo -> state (no entry: RepoIdle)
    repoStateChanged,  \* repo -> time of the last change (NoTime: no entry)
    protoConn,         \* nodeID -> protocol connection (the node's n-th)
    rawConn,           \* nodeID -> raw connection (the node's n-th)
    nodeVer,           \* the nodeIDs whose client version is recorded
    started,           \* Model.started
    cfgNodes,          \* m.cfg.Nodes: nodeID -> [introducer, name]
    clock,             \* lamport.Default
    now,               \* time.Now()
    disk,              \* repo -> name -> block count of the file (0: no file)
    diskDirty,         \* repo -> names whose file changed since it was indexed
    stignore,          \* repo -> the names the .stignore file on disk matches
    senders,           \* nodeID -> its sendIndexes tasks, in the order spawned
    nConns,            \* nodeID -> connections made so far
    crashed,           \* the process panicked or called l.Fatalf
    last,              \* the last operation: its arguments, result and events
    pair,              \* two nodes exchanging their initial indexes
    conc,              \* rmut, smut and pmut, and the calls in progress on them
    running            \* the local variables of the calls taken step by step

regVars == <<repoCfgs, repoFiles, repoNodes, nodeRepos, nodeStatRefs, repoIgnores>>
stVars == <<repoState, repoStateChanged>>
connVars == <<protoConn, rawConn, nodeVer>>
diskVars == <<disk, diskDirty, stignore>>
vars == <<repoCfgs, repoFiles, repoNodes, nodeRepos, nodeStatRefs, repoIgnores,
          repoState, repoStateChanged, protoConn, rawConn, nodeVer, started,
          cfgNodes, clock, now, disk, diskDirty, stignore, senders, nConns,
          crashed, last, pair, conc, running>>

RepoIdle == "idle"
RepoScanning == "scanning"
RepoSyncing == "syncing"
RepoCleaning == "cleaning"
States == {RepoIdle, RepoScanning, RepoSyncing, RepoCleaning}
NoTime == 0 - 1

ErrNone == "nil"
ErrNoSuchFile == "no such file"
ErrInvalid == "file is invalid"
ErrOS == "os error"
ErrEOF == "EOF"

\* The record kept of the last operation.
Op(op, node, repo, arg, ret, events) ==
    [op |-> op, node |-> node, repo |-> repo, arg |-> arg, ret |-> ret,
     events |-> events]

\* An event of events.Default: its type and the payload fields the model keeps.
Event(type, repo, node, keys, from, to, duration, items) ==
    [type |-> type, repo |-> repo, node |-> node, keys |-> keys, from |-> from,
     to |-> to, duration |-> duration, items |-> items]

LocalIndexUpdated(repo, name) ==
    Event("LocalIndexUpdated", repo, name,
          {"repo", "name", "modified", "flags", "size"}, "", "", 0, 0)

RepoRejected(repo, node) ==
    Event("RepoRejected", repo, node, {"repo", "node"}, "", "", 0, 0)
RemoteIndexUpdated(node, repo, items) ==
    Event("RemoteIndexUpdated", repo, node, {"node", "repo", "items", "version"},
          "", "", 0, items)
NodeDisconnected(node) ==
    Event("NodeDisconnected", "", node, {"id", "error"}, "", "", 0, 0)

\* Sequences over S of length at most n.
SeqsUpTo(S, n) == UNION {[1..k -> S] : k \in 0..n}

\* How often x occurs in the sequence s.
Count(s, x) == Cardinality({i \in 1..Len(s) : s[i] = x})

InSeq(s, x) == \E i \in 1..Len(s) : s[i] = x

(***************************************************************************)
(* setState (model.go:1147-1165) on the state maps st and ch at time t:    *)
(* the new maps and the events logged.                                     *)
(***************************************************************************)
setStateNoFromMutant(st, ch, repo, state, t) ==
    IF state # st[repo]
    THEN [st |-> [st EXCEPT ![repo] = state],
          ch |-> [ch EXCEPT ![repo] = t],
          events |-> <<Event("StateChanged", repo, "", {"repo", "to"}, "", state, 0, 0)>>]
    ELSE [st |-> st, ch |-> ch, events |-> <<>>]

setState(st, ch, repo, state, t) ==
    LET oldState == st[repo]
        changed == ch[repo]
        ok == ch[repo] # NoTime
    IN IF state # oldState
       THEN [st |-> [st EXCEPT ![repo] = state],
             ch |-> [ch EXCEPT ![repo] = t],
             events |-> <<IF ok
                          THEN Event("StateChanged", repo, "",
                                     {"repo", "to", "duration", "from"},
                                     oldState, state, t - changed, 0)
                          ELSE Event("StateChanged", repo, "",
                                     {"repo", "to"}, "", state, 0, 0)>>]
       ELSE [st |-> st, ch |-> ch, events |-> <<>>]

(***************************************************************************)
(* repoSharedWith (model.go:462-471).                                      *)
(***************************************************************************)
repoSharedWithAlwaysMutant(repo, nodeID) == TRUE

repoSharedWith(repo, nodeID) ==
    nodeID \in DOMAIN nodeRepos /\ InSeq(nodeRepos[nodeID], repo)

(***************************************************************************)
(* The filter loop of Index and IndexUpdate (model.go:401-409, 442-450):   *)
(* every entry ticks the clock; an ignored entry is overwritten by the     *)
(* last one and the list is shortened.  Returns the kept list and the      *)
(* clock.                                                                  *)
(***************************************************************************)
RECURSIVE filterLoopSkipMutant(_, _, _, _)
filterLoopSkipMutant(fs, i, ignores, c) ==
    IF i > Len(fs) THEN [fs |-> fs, clock |-> c]
    ELSE IF fs[i].name \in ignores
         THEN filterLoopSkipMutant(SubSeq([fs EXCEPT ![i] = fs[Len(fs)]], 1, Len(fs) - 1),
                                   i + 1, ignores, TickVal(c, fs[i].version))
         ELSE filterLoopSkipMutant(fs, i + 1, ignores, TickVal(c, fs[i].version))

\* The loop with the tick after the ignore test: dropped entries are not
\* absorbed.
RECURSIVE filterLoopTickKeptMutant(_, _, _, _)
filterLoopTickKeptMutant(fs, i, ignores, c) ==
    IF i > Len(fs) THEN [fs |-> fs, clock |-> c]
    ELSE IF fs[i].name \in ignores
         THEN filterLoopTickKeptMutant(SubSeq([fs EXCEPT ![i] = fs[Len(fs)]], 1,
                                              Len(fs) - 1), i, ignores, c)
         ELSE filterLoopTickKeptMutant(fs, i + 1, ignores, TickVal(c, fs[i].version))

RECURSIVE filterLoop(_, _, _, _)
filterLoop(fs, i, ignores, c) ==
    IF i > Len(fs) THEN [fs |-> fs, clock |-> c]
    ELSE IF fs[i].name \in ignores
         THEN filterLoop(SubSeq([fs EXCEPT ![i] = fs[Len(fs)]], 1, Len(fs) - 1),
                         i, ignores, TickVal(c, fs[i].version))
         ELSE filterLoop(fs, i + 1, ignores, TickVal(c, fs[i].version))

\* A map without the key k.
Without(f, k) == [x \in DOMAIN f \ {k} |-> f[x]]

\* The FileInfos a peer may announce, and the lists of them (names distinct).
InFiles ==
    {FileInfo(n, fb[1], v, fb[2]) :
        n \in Names, v \in 1..MaxInVersion,
        fb \in {<<{}, 1>>, <<{FlagDeleted}, 0>>, <<{FlagInvalid}, 1>>}}
InLists ==
    {fs \in SeqsUpTo(InFiles, Len(NameOrder)) :
        \A i, j \in 1..Len(fs) : i # j => fs[i].name # fs[j].name}

(***************************************************************************)
(* AddRepo (model.go:917-937).                                             *)
(***************************************************************************)
addRepoNodes(nr, id, nodes) ==
    [n \in DOMAIN nr |-> nr[n] \o [i \in 1..Count(nodes, n) |-> id]]

AddRepo(id, nodes) ==
    /\ ~crashed
    /\ \A n \in Nodes : Len(nodeRepos[n]) + Count(nodes, n) <= MaxListLen
    /\ IF started \/ id = ""
       THEN /\ crashed' = TRUE
            /\ last' = Op("AddRepo", "", id, <<>>, "panic", <<>>)
            /\ UNCHANGED <<regVars, stVars, connVars, diskVars, started, cfgNodes,
                           clock, now, senders, nConns, pair, conc, running>>
       ELSE /\ repoCfgs' = (id :> [directory |-> id]) @@ repoCfgs
            /\ repoNodes' = (id :> nodes) @@ repoNodes
            /\ nodeRepos' = addRepoNodes(nodeRepos, id, nodes)
            /\ last' = Op("AddRepo", "", id, <<>>, "", <<>>)
            /\ UNCHANGED <<repoFiles, nodeStatRefs, repoIgnores, stVars, connVars,
                           diskVars, started, cfgNodes, clock, now, senders, nConns,
                           crashed, pair, conc, running>>

(***************************************************************************)
(* clusterConfig (model.go:1109-1145): the message for a peer, or "panic"  *)
(* when a node of a shared repo has no node configuration.                 *)
(***************************************************************************)
clusterConfigPanics(node) ==
    \E i \in 1..Len(nodeRepos[node]) :
       \E j \in 1..Len(repoNodes[nodeRepos[node][i]]) :
          repoNodes[nodeRepos[node][i]][j] \notin DOMAIN cfgNodes

clusterConfig(node) ==
    [i \in 1..Len(nodeRepos[node]) |->
       [id |-> nodeRepos[node][i],
        nodes |-> [j \in 1..Len(repoNodes[nodeRepos[node][i]]) |->
                     [id |-> repoNodes[nodeRepos[node][i]][j],
                      introducer |->
                         cfgNodes[repoNodes[nodeRepos[node][i]][j]].introducer]]]]

(***************************************************************************)
(* A sendIndexes task (model.go:798-821) as AddConnection spawns it: it    *)
(* holds the connection, the repo and the ignore patterns it was given.    *)
(* kinds, sent, batches and missed record what the task did: the kinds of  *)
(* the messages it tried to send, the entries the peer got, the messages   *)
(* of its last call, and the names it passed over although the repo's      *)
(* ignore patterns did not match them.                                     *)
(***************************************************************************)
NewSender(node, repo, conn, ignores) ==
    [node |-> node, repo |-> repo, conn |-> conn, ignores |-> ignores,
     minLocalVer |-> 0, pc |-> "initial", kinds |-> <<>>,
     sent |-> [n \in Names |-> ZeroFile], batches |-> <<>>, missed |-> {}]

\* The connections made so far.
TotalConns == nConns["n1"] + nConns["n2"]

(***************************************************************************)
(* AddConnection (model.go:754-779).                                       *)
(***************************************************************************)
\* The connection replaces the one the node has, where the code panics.
AddConnectionReplaceMutant(nodeID) ==
    /\ ~crashed
    /\ TotalConns < MaxConns
    /\ ~clusterConfigPanics(nodeID)
    /\ protoConn' = (nodeID :> nConns[nodeID] + 1) @@ protoConn
    /\ rawConn' = (nodeID :> nConns[nodeID] + 1) @@ rawConn
    /\ nConns' = [nConns EXCEPT ![nodeID] = @ + 1]
    /\ nodeStatRefs' = nodeStatRefs \cup {nodeID}
    /\ last' = Op("AddConnection", nodeID, "", <<>>, "", <<>>)
    /\ UNCHANGED <<repoCfgs, repoFiles, repoNodes, nodeRepos, repoIgnores, stVars,
                   nodeVer, diskVars, started, cfgNodes, clock, now, senders, crashed,
                   pair, conc, running>>

AddConnection(nodeID) ==
    /\ ~crashed
    /\ TotalConns < MaxConns
    /\ IF nodeID \in DOMAIN protoConn \/ nodeID \in DOMAIN rawConn
       THEN \* model.go:758-764, before the first map that holds the node changes
            /\ crashed' = TRUE
            /\ last' = Op("AddConnection", nodeID, "", <<>>, "panic", <<>>)
            /\ UNCHANGED <<regVars, stVars, connVars, diskVars, started, cfgNodes,
                           clock, now, senders, nConns, pair, conc, running>>
       ELSE IF clusterConfigPanics(nodeID)
       THEN \* model.go:767, after both maps took the connection
            /\ protoConn' = (nodeID :> nConns[nodeID] + 1) @@ protoConn
            /\ rawConn' = (nodeID :> nConns[nodeID] + 1) @@ rawConn
            /\ nConns' = [nConns EXCEPT ![nodeID] = @ + 1]
            /\ crashed' = TRUE
            /\ last' = Op("AddConnection", nodeID, "", <<>>, "panic", <<>>)
            /\ UNCHANGED <<regVars, stVars, nodeVer, diskVars, started, cfgNodes,
                           clock, now, senders, pair, conc, running>>
       ELSE /\ protoConn' = (nodeID :> nConns[nodeID] + 1) @@ protoConn
            /\ rawConn' = (nodeID :> nConns[nodeID] + 1) @@ rawConn
            /\ nConns' = [nConns EXCEPT ![nodeID] = @ + 1]
            /\ senders' = [senders EXCEPT ![nodeID] = @ \o
                  [i \in 1..Len(nodeRepos[nodeID]) |->
                     NewSender(nodeID, nodeRepos[nodeID][i], nConns[nodeID] + 1,
                               repoIgnores[nodeRepos[nodeID][i]])]]
            /\ nodeStatRefs' = nodeStatRefs \cup {nodeID}
            /\ last' = Op("AddConnection", nodeID, "", <<>>, "", <<>>)
            /\ UNCHANGED <<repoCfgs, repoFiles, repoNodes, nodeRepos, repoIgnores,
                           stVars, nodeVer, diskVars, started, cfgNodes, clock, now,
                           crashed, pair, conc, running>>

(***************************************************************************)
(* Close (model.go:563-592).  The transport calls it for a connection it   *)
(* handed to AddConnection.                                                *)
(***************************************************************************)
closeKeepReplicaMutant(files, nodeID) == files

closeReplace(files, nodeID) ==
    [r \in Repos |->
        IF InSeq(nodeRepos[nodeID], r) THEN Replace(files[r], nodeID, <<>>)
        ELSE files[r]]

Close(nodeID) ==
    /\ ~crashed
    /\ nodeID \in DOMAIN protoConn
    /\ repoFiles' = closeReplace(repoFiles, nodeID)
    /\ protoConn' = Without(protoConn, nodeID)
    /\ rawConn' = Without(rawConn, nodeID)
    /\ nodeVer' = nodeVer \ {nodeID}
    /\ last' = Op("Close", nodeID, "", <<>>, "", <<NodeDisconnected(nodeID)>>)
    /\ UNCHANGED <<repoCfgs, repoNodes, nodeRepos, nodeStatRefs, repoIgnores, stVars,
                   diskVars, started, cfgNodes, clock, now, senders, nConns, crashed,
                   pair, conc, running>>

(***************************************************************************)
(* Index (model.go:378-419) and IndexUpdate (model.go:423-460).  The       *)
(* transport delivers them for a live connection.                          *)
(***************************************************************************)
indexApplyAlwaysReplaceMutant(op, set, nodeID, fs) == Replace(set, nodeID, fs)

indexApply(op, set, nodeID, fs) ==
    IF op = "Index" THEN Replace(set, nodeID, fs) ELSE Update(set, nodeID, fs)

indexCall(op, nodeID, repo, fs) ==
    /\ ~crashed
    /\ nodeID \in DOMAIN protoConn
    /\ IF ~repoSharedWith(repo, nodeID)
       THEN /\ last' = Op(op, nodeID, repo, fs, "rejected",
                          IF op = "Index" THEN <<RepoRejected(repo, nodeID)>> ELSE <<>>)
            /\ UNCHANGED <<regVars, stVars, connVars, diskVars, started, cfgNodes,
                           clock, now, senders, nConns, crashed, pair, conc, running>>
       ELSE IF repo \notin DOMAIN repoCfgs
       THEN /\ crashed' = TRUE
            /\ last' = Op(op, nodeID, repo, fs, "fatal", <<>>)
            /\ UNCHANGED <<regVars, stVars, connVars, diskVars, started, cfgNodes,
                           clock, now, senders, nConns, pair, conc, running>>
       ELSE LET res == filterLoop(fs, 1, repoIgnores[repo], clock)
                set == indexApply(op, repoFiles[repo], nodeID, res.fs)
            IN /\ res.clock <= MaxClock
               /\ set.lv[nodeID] <= MaxLocalVer
               /\ repoFiles' = [repoFiles EXCEPT ![repo] = set]
               /\ clock' = res.clock
               /\ last' = Op(op, nodeID, repo, fs, "",
                             <<RemoteIndexUpdated(nodeID, repo, Len(res.fs))>>)
               /\ UNCHANGED <<repoCfgs, repoNodes, nodeRepos, nodeStatRefs,
                              repoIgnores, stVars, connVars, diskVars, started,
                              cfgNodes, now, senders, nConns, crashed, pair, conc, running>>

Index(nodeID, repo, fs) == indexCall("Index", nodeID, repo, fs)

IndexUpdate(nodeID, repo, fs) == indexCall("IndexUpdate", nodeID, repo, fs)

(***************************************************************************)
(* ClusterConfig (model.go:473-559).  st holds m.cfg.Nodes, nodeRepos,     *)
(* repoNodes and the changed flag while the announced lists are walked.    *)
(***************************************************************************)
RECURSIVE ccNodes(_, _, _)
ccNodes(nodes, repoID, st) ==
    IF nodes = <<>> THEN st
    ELSE LET id == Head(nodes).id
             st1 == IF id \notin DOMAIN st.cfg
                    THEN [st EXCEPT
                            !.cfg = (id :> [introducer |-> Head(nodes).introducer,
                                            name |-> ""]) @@ st.cfg,
                            !.changed = TRUE]
                    ELSE st
             st2 == IF InSeq(st1.nodeRepos[id], repoID)
                    THEN st1
                    ELSE [st1 EXCEPT
                            !.nodeRepos[id] = Append(@, repoID),
                            !.repoNodes[repoID] = Append(@, id),
                            !.changed = TRUE]
         IN ccNodes(Tail(nodes), repoID, st2)

RECURSIVE ccRepos(_, _)
ccRepos(repos, st) ==
    IF repos = <<>> THEN st
    ELSE IF Head(repos).id \notin DOMAIN st.repoNodes
         THEN ccRepos(Tail(repos), st)
         ELSE ccRepos(Tail(repos), ccNodes(Head(repos).nodes, Head(repos).id, st))

\* The ClusterConfigMessages a peer may send: an optional name, and at most
\* one repository announcing at most two nodes.
CCNodeLists == SeqsUpTo([id : Nodes, introducer : BOOLEAN], 2)
CCMessages ==
    [name : {"", "x"},
     repos : {<<>>} \cup {<<[id |-> r, nodes |-> ns]>> : r \in Repos, ns \in CCNodeLists}]

ClusterConfig(nodeID, cm) ==
    /\ ~crashed
    /\ nodeID \in DOMAIN protoConn
    /\ nodeVer' = nodeVer \cup {nodeID}
    /\ LET nameSaved == cm.name # "" /\ nodeID \in DOMAIN cfgNodes
                        /\ cfgNodes[nodeID].name = ""
           cfg1 == IF nameSaved THEN [cfgNodes EXCEPT ![nodeID].name = cm.name]
                   ELSE cfgNodes
       IN IF nodeID \notin DOMAIN cfgNodes
          THEN /\ crashed' = TRUE
               /\ last' = Op("ClusterConfig", nodeID, "", cm, "panic", <<>>)
               /\ UNCHANGED <<regVars, stVars, protoConn, rawConn, diskVars, started,
                              cfgNodes, clock, now, senders, nConns, pair, conc, running>>
          ELSE IF ~cfg1[nodeID].introducer
          THEN /\ cfgNodes' = cfg1
               /\ last' = Op("ClusterConfig", nodeID, "", cm,
                             IF nameSaved THEN "saved" ELSE "", <<>>)
               /\ UNCHANGED <<regVars, stVars, protoConn, rawConn, diskVars, started,
                              clock, now, senders, nConns, crashed, pair, conc, running>>
          ELSE LET st == ccRepos(cm.repos,
                                 [cfg |-> cfg1, nodeRepos |-> nodeRepos,
                                  repoNodes |-> repoNodes, changed |-> FALSE])
               IN /\ cfgNodes' = st.cfg
                  /\ nodeRepos' = st.nodeRepos
                  /\ repoNodes' = st.repoNodes
                  /\ last' = Op("ClusterConfig", nodeID, "", cm,
                                IF nameSaved \/ st.changed THEN "saved" ELSE "",
                                <<>>)
                  /\ UNCHANGED <<repoCfgs, repoFiles, nodeStatRefs, repoIgnores,
                                 stVars, protoConn, rawConn, diskVars, started, clock,
                                 now, senders, nConns, crashed, pair, conc, running>>

(***************************************************************************)
(* Request (model.go:596-641): the error and the data returned.  The file  *)
(* on disk is opened and read only when the checks on the index pass.      *)
(***************************************************************************)
NoData == <<>>

readDisk(repo, name, offset, size) ==
    IF disk[repo][name] = 0 THEN [err |-> ErrOS, data |-> NoData]
    ELSE IF size > 0 /\ offset + size > disk[repo][name]
    THEN [err |-> ErrEOF, data |-> NoData]
    ELSE [err |-> ErrNone, data |-> <<[name |-> name, offset |-> offset, size |-> size]>>]

\* Request answering only the nodes the repo is shared with.
requestSharedOnlyMutant(nodeID, repo, name, offset, size) ==
    IF repo \notin DOMAIN repoCfgs \/ ~repoSharedWith(repo, nodeID)
    THEN [err |-> ErrNoSuchFile, data |-> NoData]
    ELSE LET lf == Get(repoFiles[repo], LocalNodeID, name)
         IN IF IsInvalid(lf) \/ IsDeleted(lf)
            THEN [err |-> ErrInvalid, data |-> NoData]
            ELSE IF offset > FileSize(lf)
            THEN [err |-> ErrNoSuchFile, data |-> NoData]
            ELSE readDisk(repo, name, offset, size)

\* nodeID appears in the log lines only (model.go:603, 610, 617, 622-623).
request(nodeID, repo, name, offset, size) ==
    IF repo \notin DOMAIN repoCfgs THEN [err |-> ErrNoSuchFile, data |-> NoData]
    ELSE LET lf == Get(repoFiles[repo], LocalNodeID, name)
         IN IF IsInvalid(lf) \/ IsDeleted(lf)
            THEN [err |-> ErrInvalid, data |-> NoData]
            ELSE IF offset > FileSize(lf)
            THEN [err |-> ErrNoSuchFile, data |-> NoData]
            ELSE readDisk(repo, name, offset, size)

MaxOffset == 2
MaxSize == 1

Request(nodeID, repo, name, offset, size) ==
    /\ ~crashed
    /\ last' = Op("Request", nodeID, repo,
                  [name |-> name, offset |-> offset, size |-> size],
                  request(nodeID, repo, name, offset, size), <<>>)
    /\ UNCHANGED <<regVars, stVars, connVars, diskVars, started, cfgNodes, clock,
                   now, senders, nConns, crashed, pair, conc, running>>

(***************************************************************************)
(* The state machine's entry point for the puller (model.go:1147-1165),    *)
(* and the passing of time.                                                *)
(***************************************************************************)
SetState(repo, state) ==
    /\ ~crashed
    /\ LET res == setState(repoState, repoStateChanged, repo, state, now)
       IN /\ repoState' = res.st
          /\ repoStateChanged' = res.ch
          /\ last' = Op("setState", "", repo, state, "", res.events)
    /\ UNCHANGED <<regVars, connVars, diskVars, started, cfgNodes, clock, now,
                   senders, nConns, crashed, pair, conc, running>>

AdvanceTime ==
    /\ ~crashed
    /\ now < MaxTime
    /\ now' = now + 1
    /\ last' = Op("time", "", "", <<>>, "", <<>>)
    /\ UNCHANGED <<regVars, stVars, connVars, diskVars, started, cfgNodes, clock,
                   senders, nConns, crashed, pair, conc, running>>

(***************************************************************************)
(* Override (model.go:1175-1207).  overrideLoop is the visitor of WithNeed *)
(* over the entries need, with the set, the batch and the clock so far.    *)
(***************************************************************************)
overrideEntryNoTickMutant(need, have, c) ==
    IF have.name # need.name
    THEN [need EXCEPT !.flags = @ \cup {FlagDeleted}, !.blocks = 0,
                      !.version = need.version, !.localVersion = 0]
    ELSE [have EXCEPT !.version = have.version + 1, !.localVersion = 0]

overrideEntry(need, have, c) ==
    IF have.name # need.name
    THEN [need EXCEPT !.flags = @ \cup {FlagDeleted}, !.blocks = 0,
                      !.version = TickVal(c, need.version), !.localVersion = 0]
    ELSE [have EXCEPT !.version = TickVal(c, have.version), !.localVersion = 0]

RECURSIVE overrideLoop(_, _, _, _)
overrideLoop(need, set, batch, c) ==
    IF need = <<>>
    THEN [set |-> IF Len(batch) > 0 THEN Update(set, LocalNodeID, batch) ELSE set,
          clock |-> c]
    ELSE LET flush == Len(batch) = indexBatchSize
             set1 == IF flush THEN Update(set, LocalNodeID, batch) ELSE set
             batch1 == IF flush THEN <<>> ELSE batch
             e == overrideEntry(Head(need), Get(set1, LocalNodeID, Head(need).name), c)
         IN overrideLoop(Tail(need), set1, Append(batch1, e), e.version)

Override(repo) ==
    /\ ~crashed
    /\ LET s1 == setState(repoState, repoStateChanged, repo, RepoScanning, now)
       IN IF repo \notin DOMAIN repoCfgs
          THEN /\ crashed' = TRUE
               /\ repoState' = s1.st
               /\ repoStateChanged' = s1.ch
               /\ last' = Op("Override", "", repo, <<>>, "panic", s1.events)
               /\ UNCHANGED <<regVars, connVars, diskVars, started, cfgNodes, clock,
                              now, senders, nConns, pair, conc, running>>
          ELSE LET res == overrideLoop(WithNeed(repoFiles[repo], LocalNodeID),
                                       repoFiles[repo], <<>>, clock)
                   s2 == setState(s1.st, s1.ch, repo, RepoIdle, now)
               IN /\ res.clock <= MaxClock
                  /\ res.set.lv[LocalNodeID] <= MaxLocalVer
                  /\ repoFiles' = [repoFiles EXCEPT ![repo] = res.set]
                  /\ clock' = res.clock
                  /\ repoState' = s2.st
                  /\ repoStateChanged' = s2.ch
                  /\ last' = Op("Override", "", repo,
                                Need(repoFiles[repo], LocalNodeID), "",
                                s1.events \o s2.events)
                  /\ UNCHANGED <<repoCfgs, repoNodes, nodeRepos, nodeStatRefs,
                                 repoIgnores, connVars, diskVars, started, cfgNodes,
                                 now, senders, nConns, crashed, pair, conc, running>>

(***************************************************************************)
(* updateLocal (model.go:887-899): the puller's commit of one file.        *)
(***************************************************************************)
updateLocal(repo, f) ==
    /\ ~crashed
    /\ IF repo \notin DOMAIN repoCfgs
       THEN /\ crashed' = TRUE
            /\ last' = Op("updateLocal", "", repo, f, "panic", <<>>)
            /\ UNCHANGED <<regVars, stVars, connVars, diskVars, started, cfgNodes,
                           clock, now, senders, nConns, pair, conc, running>>
       ELSE LET set == Update(repoFiles[repo], LocalNodeID,
                              <<[f EXCEPT !.localVersion = 0]>>)
            IN /\ set.lv[LocalNodeID] <= MaxLocalVer
               /\ repoFiles' = [repoFiles EXCEPT ![repo] = set]
               /\ last' = Op("updateLocal", "", repo, f, "",
                             <<LocalIndexUpdated(repo, f.name)>>)
               /\ UNCHANGED <<repoCfgs, repoNodes, nodeRepos, nodeStatRefs,
                              repoIgnores, stVars, connVars, diskVars, started,
                              cfgNodes, clock, now, senders, nConns, crashed, pair, conc, running>>

(***************************************************************************)
(* The files of a repository on disk: a user writes or removes a file.     *)
(***************************************************************************)
DiskWrite(repo, name, blocks) ==
    /\ ~crashed
    /\ repo \in DOMAIN repoCfgs
    /\ disk' = [disk EXCEPT ![repo][name] = blocks]
    /\ diskDirty' = [diskDirty EXCEPT ![repo] = @ \cup {name}]
    /\ last' = Op("disk", "", repo, name, "", <<>>)
    /\ UNCHANGED <<regVars, stVars, connVars, stignore, started, cfgNodes, clock, now,
                   senders, nConns, crashed, pair, conc, running>>

DiskRemove(repo, name) ==
    /\ ~crashed
    /\ repo \in DOMAIN repoCfgs
    /\ disk[repo][name] # 0
    /\ disk' = [disk EXCEPT ![repo][name] = 0]
    /\ diskDirty' = [diskDirty EXCEPT ![repo] = @ \ {name}]
    /\ last' = Op("disk", "", repo, name, "", <<>>)
    /\ UNCHANGED <<regVars, stVars, connVars, stignore, started, cfgNodes, clock, now,
                   senders, nConns, crashed, pair, conc, running>>

(***************************************************************************)
(* ScanRepoSub (model.go:989-1106).                                        *)
(***************************************************************************)
\* strings.HasPrefix(name, sub) on the names of the model: "a" is a prefix
\* of "a" and of "ab".
HasPrefix(name, sub) == sub = "" \/ name = sub \/ (sub = "a" /\ name = "ab")

\* The file name lies in the tree below sub: it is sub or a path below it.
Under(name, sub) == sub = "" \/ name = sub
Subs == {"", ".."} \cup Names
scanBatchSize == 100

\* files.Set.Update of fs in batches of size entries.
RECURSIVE updateInBatches(_, _, _)
updateInBatches(set, fs, size) ==
    IF Len(fs) = 0 THEN set
    ELSE IF Len(fs) <= size THEN Update(set, LocalNodeID, fs)
    ELSE updateInBatches(Update(set, LocalNodeID, SubSeq(fs, 1, size)),
                         SubSeq(fs, size + 1, Len(fs)), size)

\* scanner.Walker.Walk: the files under sub that are not ignored and whose
\* metadata differs from the current entry (CurrentFiler), each with a
\* fresh version.
RECURSIVE walk(_, _, _, _, _, _)
walk(i, repo, sub, ignores, set, c) ==
    IF i > Len(NameOrder) THEN [fs |-> <<>>, clock |-> c]
    ELSE LET n == NameOrder[i]
             cur == Get(set, LocalNodeID, n)
             take == /\ Under(n, sub)
                     /\ disk[repo][n] > 0
                     /\ n \notin ignores
                     /\ \/ n \in diskDirty[repo]
                        \/ cur.name = ""
                        \/ IsDeleted(cur)
                        \/ IsInvalid(cur)
         IN IF take
            THEN LET rest == walk(i + 1, repo, sub, ignores, set, TickVal(c, 0))
                 IN [fs |-> <<FileInfo(n, {}, TickVal(c, 0), disk[repo][n])>> \o rest.fs,
                     clock |-> rest.clock]
            ELSE walk(i + 1, repo, sub, ignores, set, c)

\* The visitor without the test for Deleted entries (model.go:1054).
RECURSIVE secondPassRebumpMutant(_, _, _, _, _, _, _)
secondPassRebumpMutant(have, repo, sub, ignores, seenPrefix, batch, c) ==
    IF have = <<>> THEN [batch |-> batch, clock |-> c]
    ELSE LET f == Head(have)
         IN IF ~HasPrefix(f.name, sub)
            THEN IF ~seenPrefix
                 THEN secondPassRebumpMutant(Tail(have), repo, sub, ignores, seenPrefix,
                                             batch, c)
                 ELSE [batch |-> batch, clock |-> c]
            ELSE IF IsInvalid(f)
            THEN secondPassRebumpMutant(Tail(have), repo, sub, ignores, TRUE, batch, c)
            ELSE IF f.name \in ignores
            THEN secondPassRebumpMutant(Tail(have), repo, sub, ignores, TRUE,
                            Append(batch, FileInfo(f.name, f.flags \cup {FlagInvalid},
                                                   f.version, 0)), c)
            ELSE IF disk[repo][f.name] = 0
            THEN secondPassRebumpMutant(Tail(have), repo, sub, ignores, TRUE,
                            Append(batch, FileInfo(f.name, f.flags \cup {FlagDeleted},
                                                   TickVal(c, f.version), 0)),
                            TickVal(c, f.version))
            ELSE secondPassRebumpMutant(Tail(have), repo, sub, ignores, TRUE, batch, c)

\* The visitor of the second pass (model.go:1044-1099) over the local
\* entries have: the batch of entries to write back, and the clock.
RECURSIVE secondPass(_, _, _, _, _, _, _)
secondPass(have, repo, sub, ignores, seenPrefix, batch, c) ==
    IF have = <<>> THEN [batch |-> batch, clock |-> c]
    ELSE LET f == Head(have)
         IN IF ~HasPrefix(f.name, sub)
            THEN IF ~seenPrefix
                 THEN secondPass(Tail(have), repo, sub, ignores, seenPrefix, batch, c)
                 ELSE [batch |-> batch, clock |-> c]
            ELSE IF IsDeleted(f) \/ IsInvalid(f)
            THEN secondPass(Tail(have), repo, sub, ignores, TRUE, batch, c)
            ELSE IF f.name \in ignores
            THEN secondPass(Tail(have), repo, sub, ignores, TRUE,
                            Append(batch, FileInfo(f.name, f.flags \cup {FlagInvalid},
                                                   f.version, 0)), c)
            ELSE IF disk[repo][f.name] = 0
            THEN secondPass(Tail(have), repo, sub, ignores, TRUE,
                            Append(batch, FileInfo(f.name, f.flags \cup {FlagDeleted},
                                                   TickVal(c, f.version), 0)),
                            TickVal(c, f.version))
            ELSE secondPass(Tail(have), repo, sub, ignores, TRUE, batch, c)

\* The two passes of ScanRepoSub over the index (model.go:1016-1102) with the
\* ignore patterns ign.
scanPasses(repo, sub, ign) ==
    LET w == walk(1, repo, sub, ign, repoFiles[repo], clock)
        set1 == updateInBatches(repoFiles[repo], w.fs, scanBatchSize)
        p2 == secondPass(WithHave(set1, LocalNodeID), repo, sub, ign, FALSE, <<>>, w.clock)
        set2 == updateInBatches(set1, p2.batch, scanBatchSize)
    IN [set |-> set2, clock |-> p2.clock, dirty |-> diskDirty[repo] \ SeqNames(w.fs),
        events |-> [i \in 1..Len(w.fs) |-> LocalIndexUpdated(repo, w.fs[i].name)]
                   \o [i \in 1..Len(p2.batch) |->
                         LocalIndexUpdated(repo, p2.batch[i].name)]]

\* ScanRepoSub of a registered repo with a valid subpath, the ignore
\* patterns ign having been loaded: what it leaves behind.
scan(repo, sub, walkErr, ign) ==
    LET s1 == setState(repoState, repoStateChanged, repo, RepoScanning, now)
    IN IF walkErr
       THEN [set |-> repoFiles[repo], clock |-> clock, st |-> s1.st, ch |-> s1.ch,
             dirty |-> diskDirty[repo], ret |-> "walk error", events |-> s1.events]
       ELSE LET p == scanPasses(repo, sub, ign)
                s2 == setState(s1.st, s1.ch, repo, RepoIdle, now)
            IN [set |-> p.set, clock |-> p.clock, st |-> s2.st, ch |-> s2.ch,
                dirty |-> p.dirty, ret |-> "nil",
                events |-> s1.events \o p.events \o s2.events]

ScanRepoSub(repo, sub, walkErr) ==
    /\ ~crashed
    /\ IF sub = ".."
       THEN /\ last' = Op("ScanRepoSub", "", repo, sub, "invalid subpath", <<>>)
            /\ UNCHANGED <<regVars, stVars, connVars, diskVars, started, cfgNodes,
                           clock, now, senders, nConns, crashed, pair, conc, running>>
       ELSE IF repo \notin DOMAIN repoCfgs
       THEN /\ repoIgnores' = [repoIgnores EXCEPT ![repo] = {}]
            /\ last' = Op("ScanRepoSub", "", repo, sub, "no such repo", <<>>)
            /\ UNCHANGED <<repoCfgs, repoFiles, repoNodes, nodeRepos, nodeStatRefs,
                           stVars, connVars, diskVars, started, cfgNodes, clock, now,
                           senders, nConns, crashed, pair, conc, running>>
       ELSE LET res == scan(repo, sub, walkErr, stignore[repo])
            IN /\ res.clock <= MaxClock
               /\ res.set.lv[LocalNodeID] <= MaxLocalVer
               /\ repoIgnores' = [repoIgnores EXCEPT ![repo] = stignore[repo]]
               /\ repoFiles' = [repoFiles EXCEPT ![repo] = res.set]
               /\ clock' = res.clock
               /\ repoState' = res.st
               /\ repoStateChanged' = res.ch
               /\ diskDirty' = [diskDirty EXCEPT ![repo] = res.dirty]
               /\ last' = Op("ScanRepoSub", "", repo, sub, res.ret, res.events)
               /\ UNCHANGED <<repoCfgs, repoNodes, nodeRepos, nodeStatRefs, connVars,
                              disk, stignore, started, cfgNodes, now, senders, nConns,
                              crashed, pair, conc, running>>

(***************************************************************************)
(* SetIgnores (model.go:714-749): .stignore is replaced, then the repo is  *)
(* rescanned.                                                              *)
(***************************************************************************)
SetIgnores(repo, content, walkErr) ==
    /\ ~crashed
    /\ IF repo \notin DOMAIN repoCfgs
       THEN /\ last' = Op("SetIgnores", "", repo, content, "no such repo", <<>>)
            /\ UNCHANGED <<regVars, stVars, connVars, diskVars, started, cfgNodes,
                           clock, now, senders, nConns, crashed, pair, conc, running>>
       ELSE LET res == scan(repo, "", walkErr, content)
            IN /\ res.clock <= MaxClock
               /\ res.set.lv[LocalNodeID] <= MaxLocalVer
               /\ stignore' = [stignore EXCEPT ![repo] = content]
               /\ repoIgnores' = [repoIgnores EXCEPT ![repo] = content]
               /\ repoFiles' = [repoFiles EXCEPT ![repo] = res.set]
               /\ clock' = res.clock
               /\ repoState' = res.st
               /\ repoStateChanged' = res.ch
               /\ diskDirty' = [diskDirty EXCEPT ![repo] = res.dirty]
               /\ last' = Op("SetIgnores", "", repo, content, res.ret, res.events)
               /\ UNCHANGED <<repoCfgs, repoNodes, nodeRepos, nodeStatRefs, connVars,
                              disk, started, cfgNodes, now, senders, nConns, crashed,
                              pair, conc, running>>

(***************************************************************************)
(* sendIndexTo (model.go:823-885) without send errors: the messages it     *)
(* sends and the watermark it returns.  sendIndexLoop is the visitor of    *)
(* WithHave over the local entries have.                                   *)
(***************************************************************************)
Max(a, b) == IF a > b THEN a ELSE b

Msg(kind, batch) == [kind |-> kind, batch |-> batch]

\* The visitor without the test of the batch length (model.go:845).
sendIndexVisitNoCountMutant(f, minLocalVer, ignores, v) ==
    IF f.localVersion <= minLocalVer THEN v
    ELSE IF f.name \in ignores
    THEN [v EXCEPT !.maxLocalVer = Max(@, f.localVersion)]
    ELSE LET flush == v.currentBatchSize > indexTargetSize
         IN [initial |-> IF flush THEN FALSE ELSE v.initial,
             batch |-> Append(IF flush THEN <<>> ELSE v.batch, f),
             currentBatchSize |->
                 (IF flush THEN 0 ELSE v.currentBatchSize)
                    + indexPerFileSize + f.blocks * IndexPerBlockSize,
             maxLocalVer |-> Max(v.maxLocalVer, f.localVersion),
             msgs |-> IF flush
                      THEN Append(v.msgs, Msg(IF v.initial THEN "Index" ELSE "IndexUpdate",
                                              v.batch))
                      ELSE v.msgs]

\* The visitor of sendIndexTo (model.go:832-869) for the entry f; v holds the
\* call's local variables and the messages sent so far.
sendIndexVisit(f, minLocalVer, ignores, v) ==
    IF f.localVersion <= minLocalVer THEN v
    ELSE IF f.name \in ignores
    THEN [v EXCEPT !.maxLocalVer = Max(@, f.localVersion)]
    ELSE LET flush == \/ Len(v.batch) = indexBatchSize
                      \/ v.currentBatchSize > indexTargetSize
         IN [initial |-> IF flush THEN FALSE ELSE v.initial,
             batch |-> Append(IF flush THEN <<>> ELSE v.batch, f),
             currentBatchSize |->
                 (IF flush THEN 0 ELSE v.currentBatchSize)
                    + indexPerFileSize + f.blocks * IndexPerBlockSize,
             maxLocalVer |-> Max(v.maxLocalVer, f.localVersion),
             msgs |-> IF flush
                      THEN Append(v.msgs, Msg(IF v.initial THEN "Index" ELSE "IndexUpdate",
                                              v.batch))
                      ELSE v.msgs]

RECURSIVE sendIndexLoop(_, _, _, _, _, _, _, _)
sendIndexLoop(have, minLocalVer, ignores, initial, batch, currentBatchSize, maxLocalVer, msgs) ==
    IF have = <<>>
    THEN [msgs |-> IF initial THEN Append(msgs, Msg("Index", batch))
                   ELSE IF Len(batch) > 0 THEN Append(msgs, Msg("IndexUpdate", batch))
                   ELSE msgs,
          maxLocalVer |-> maxLocalVer]
    ELSE LET v == sendIndexVisit(Head(have), minLocalVer, ignores,
                                 [initial |-> initial, batch |-> batch,
                                  currentBatchSize |-> currentBatchSize,
                                  maxLocalVer |-> maxLocalVer, msgs |-> msgs])
         IN sendIndexLoop(Tail(have), minLocalVer, ignores, v.initial, v.batch,
                          v.currentBatchSize, v.maxLocalVer, v.msgs)

sendIndexToNotInitialMutant(initial, minLocalVer, set, ignores) ==
    sendIndexLoop(WithHave(set, LocalNodeID), minLocalVer, ignores, FALSE,
                  <<>>, 0, 0, <<>>)

sendIndexTo(initial, minLocalVer, set, ignores) ==
    sendIndexLoop(WithHave(set, LocalNodeID), minLocalVer, ignores, initial,
                  <<>>, 0, 0, <<>>)

(***************************************************************************)
(* The steps of a sendIndexes task (model.go:798-821).  A send on a        *)
(* connection that was closed fails; a send on a live one may fail.  The   *)
(* failAt-th send of a call fails (0: none), which ends the task.          *)
(***************************************************************************)
Live(t) == t.node \in DOMAIN protoConn /\ protoConn[t.node] = t.conn

\* The entries delivered by the messages ms, the later ones over the earlier.
RECURSIVE Delivered(_, _)
Delivered(sent, ms) ==
    IF ms = <<>> THEN sent
    ELSE Delivered([n \in Names |->
                      IF n \in SeqNames(Head(ms).batch)
                      THEN EntryFor(Head(ms).batch, n) ELSE sent[n]],
                   Tail(ms))

\* The names of the entries above the task's watermark that its patterns
\* match and the repo's patterns do not.
PassedOver(t) ==
    {name \in Have(repoFiles[t.repo], LocalNodeID) :
        /\ Get(repoFiles[t.repo], LocalNodeID, name).localVersion > t.minLocalVer
        /\ name \in t.ignores
        /\ name \notin repoIgnores[t.repo]}

senderRun(n, i, initial, failAt) ==
    LET t == senders[n][i]
        res == sendIndexTo(initial, t.minLocalVer, repoFiles[t.repo], t.ignores)
        fail == IF Live(t) THEN failAt ELSE IF Len(res.msgs) > 0 THEN 1 ELSE 0
        failed == fail > 0
        tried == IF failed THEN SubSeq(res.msgs, 1, fail) ELSE res.msgs
        done == IF failed THEN SubSeq(res.msgs, 1, fail - 1) ELSE res.msgs
    IN /\ failAt <= Len(res.msgs)
       /\ ~Live(t) => failAt = 0
       /\ senders' = [senders EXCEPT ![n][i] =
             [t EXCEPT !.minLocalVer = res.maxLocalVer,
                       !.pc = IF failed THEN "done" ELSE "sleep",
                       !.kinds = @ \o [k \in 1..Len(tried) |-> tried[k].kind],
                       !.sent = Delivered(@, done),
                       !.batches = tried,
                       !.missed = @ \cup PassedOver(t)]]
       /\ last' = Op(IF initial THEN "sendIndexTo(initial)" ELSE "sendIndexTo",
                     t.node, t.repo, i, IF failed THEN "error" ELSE "nil", <<>>)
       /\ UNCHANGED <<regVars, stVars, connVars, diskVars, started, cfgNodes, clock,
                      now, nConns, crashed, pair, conc, running>>

MaxFailAt == 1

SenderInitial(n, i, failAt) ==
    /\ ~crashed
    /\ senders[n][i].pc = "initial"
    /\ senderRun(n, i, TRUE, failAt)

\* The loop's test after the sleep: the task goes on to sendIndexTo when the
\* local watermark is above what it sent.
SenderWake(n, i) ==
    /\ ~crashed
    /\ senders[n][i].pc = "sleep"
    /\ LocalVersionOf(repoFiles[senders[n][i].repo], LocalNodeID)
          > senders[n][i].minLocalVer
    /\ senders' = [senders EXCEPT ![n][i].pc = "send"]
    /\ last' = Op("sendIndexes", n, senders[n][i].repo, i, "", <<>>)
    /\ UNCHANGED <<regVars, stVars, connVars, diskVars, started, cfgNodes, clock,
                   now, nConns, crashed, pair, conc, running>>

SenderUpdate(n, i, failAt) ==
    /\ ~crashed
    /\ senders[n][i].pc = "send"
    /\ senderRun(n, i, FALSE, failAt)

(***************************************************************************)
(* The three locks of a Model (model.go:82-91) and the steps every method  *)
(* takes on them and on the maps rmut protects, in program order.  A path  *)
(* is the method's longest path; the early returns leave it with no lock   *)
(* held.                                                                   *)
(***************************************************************************)
Locks == {"pmut", "rmut", "smut"}
RMaps == {"repoCfgs", "repoFiles", "repoNodes", "nodeRepos", "nodeStatRefs", "repoIgnores"}
Threads == {"t1", "t2"}

\* The nesting order P -> R -> S.
Rank(l) == CASE l = "pmut" -> 1 [] l = "rmut" -> 2 [] l = "smut" -> 3

Step(k, x) == <<[k |-> k, x |-> x]>>
Lock(l) == Step("Lock", l)
Unlock(l) == Step("Unlock", l)
RLock(l) == Step("RLock", l)
RUnlock(l) == Step("RUnlock", l)
Read(m) == Step("read", m)
Write(m) == Step("write", m)
\* I/O: a transport "send" or "close", a "disk" read or write, a write to the
\* index store "db".
IO(x) == Step("io", x)

ConnectionStatsPathSwappedMutant ==
    RLock("rmut") \o RLock("pmut") \o RUnlock("pmut") \o RUnlock("rmut")

\* ConnectionStats (model.go:204-221).
ConnectionStatsPath ==
    RLock("pmut") \o RLock("rmut") \o RUnlock("rmut") \o RUnlock("pmut")

Methods ==
    {"StartRepoRW", "StartRepoRO", "ConnectionStats", "NodeStatistics", "Size",
     "Index", "ClusterConfig", "Close", "Request", "CurrentRepoFile", "ConnectedTo",
     "GetIgnores", "SetIgnores", "AddConnection", "requestGlobal", "AddRepo",
     "ScanRepos", "ScanRepoSub", "setState", "State", "Override",
     "CurrentLocalVersion", "RemoteLocalVersion", "updateLocal"}

Path(op) ==
    LET \* repoSharedWith (model.go:462-471)
        repoSharedWithPath == RLock("rmut") \o Read("nodeRepos") \o RUnlock("rmut")
        \* nodeStatRef (model.go:781-792)
        nodeStatRefPath ==
            Lock("rmut") \o Read("nodeStatRefs") \o Write("nodeStatRefs") \o Unlock("rmut")
        \* clusterConfig (model.go:1109-1145)
        clusterConfigPath ==
            RLock("rmut") \o Read("nodeRepos") \o Read("repoNodes") \o RUnlock("rmut")
        \* setState (model.go:1147-1165)
        setStatePath == Lock("smut") \o Unlock("smut")
        \* CurrentRepoFile (model.go:650-655), also the scanner's CurrentFiler
        CurrentRepoFilePath == RLock("rmut") \o Read("repoFiles") \o RUnlock("rmut")
        \* ScanRepoSub (model.go:989-1106)
        ScanRepoSubPath ==
            RLock("rmut") \o Read("repoFiles") \o Read("repoCfgs") \o IO("disk")
            \o Write("repoIgnores") \o RUnlock("rmut") \o setStatePath \o IO("disk")
            \o CurrentRepoFilePath \o IO("db") \o setStatePath
    IN CASE op = "StartRepoRW" ->    \* model.go:142-167
              Lock("rmut") \o Read("repoCfgs") \o Unlock("rmut")
         [] op = "StartRepoRO" ->    \* model.go:172-190
              Read("repoCfgs")
         [] op = "ConnectionStats" -> ConnectionStatsPath
         [] op = "NodeStatistics" -> \* model.go:236-242
              nodeStatRefPath
         [] op = "Size" ->           \* Completion, GlobalSize, LocalSize, NeedSize,
                                     \* NeedFilesRepoLimited (model.go:245-374)
              RLock("rmut") \o Read("repoFiles") \o RUnlock("rmut")
         [] op = "Index" ->          \* Index, IndexUpdate (model.go:378-457)
              repoSharedWithPath
              \o RLock("rmut") \o Read("repoFiles") \o Read("repoIgnores") \o RUnlock("rmut")
              \o IO("db")
         [] op = "ClusterConfig" ->  \* model.go:473-559
              Lock("pmut") \o Unlock("pmut")
              \o Read("repoNodes") \o Read("nodeRepos") \o Write("nodeRepos")
              \o Write("repoNodes")
         [] op = "Close" ->          \* model.go:563-592
              Lock("pmut") \o RLock("rmut") \o Read("nodeRepos") \o Read("repoFiles")
              \o IO("db") \o RUnlock("rmut") \o IO("close") \o Unlock("pmut")
         [] op = "Request" ->        \* model.go:596-642
              RLock("rmut") \o Read("repoFiles") \o RUnlock("rmut")
              \o RLock("rmut") \o Read("repoCfgs") \o RUnlock("rmut") \o IO("disk")
         [] op = "CurrentRepoFile" -> CurrentRepoFilePath
         [] op = "ConnectedTo" ->    \* model.go:675-683
              RLock("pmut") \o RUnlock("pmut") \o nodeStatRefPath
         [] op = "GetIgnores" ->     \* model.go:685-712
              Read("repoCfgs") \o Lock("rmut") \o IO("disk") \o Unlock("rmut")
         [] op = "SetIgnores" ->     \* model.go:714-749
              Read("repoCfgs") \o IO("disk") \o ScanRepoSubPath
         [] op = "AddConnection" ->  \* model.go:754-779
              Lock("pmut") \o clusterConfigPath \o IO("send")
              \o RLock("rmut") \o Read("nodeRepos") \o Read("repoFiles")
              \o Read("repoIgnores") \o RUnlock("rmut") \o Unlock("pmut") \o nodeStatRefPath
              \o IO("db")
         [] op = "requestGlobal" ->  \* model.go:901-915
              RLock("pmut") \o RUnlock("pmut") \o IO("send")
         [] op = "AddRepo" ->        \* model.go:917-937
              Lock("rmut") \o Write("repoCfgs") \o Write("repoFiles") \o Write("repoNodes")
              \o Read("nodeRepos") \o Write("nodeRepos") \o Unlock("rmut")
         [] op = "ScanRepos" ->      \* ScanRepos, CleanRepos (model.go:939-983)
              RLock("rmut") \o Read("repoCfgs") \o RUnlock("rmut")
         [] op = "ScanRepoSub" -> ScanRepoSubPath
         [] op = "setState" -> setStatePath
         [] op = "State" ->          \* model.go:1167-1173
              RLock("smut") \o RUnlock("smut")
         [] op = "Override" ->       \* model.go:1175-1207
              RLock("rmut") \o Read("repoFiles") \o RUnlock("rmut") \o setStatePath
              \o IO("db") \o setStatePath
         [] op = "CurrentLocalVersion" -> \* and availability (model.go:1212-1254)
              Lock("rmut") \o Read("repoFiles") \o Unlock("rmut")
         [] op = "RemoteLocalVersion" ->   \* model.go:1227-1242
              Lock("rmut") \o Read("repoFiles") \o Read("repoNodes") \o Unlock("rmut")
         [] op = "updateLocal" ->    \* updateLocal, ReplaceLocal (model.go:644-648, 887-891)
              RLock("rmut") \o Read("repoFiles") \o IO("db") \o RUnlock("rmut")
         [] OTHER -> <<>>

(***************************************************************************)
(* Calls in progress.  conc.pc[t] is the method thread t is in and the     *)
(* step it takes next; conc.w[l] is the thread that holds l for writing,   *)
(* conc.r[l][t] how often t holds l for reading, conc.pending[l] the       *)
(* threads waiting in l.Lock().  A sync.RWMutex admits no new reader while *)
(* a writer holds it or waits for it.                                      *)
(***************************************************************************)
NoThread == "none"
IdlePc == [op |-> "", i |-> 0]
ConcIdle ==
    [pc |-> [t \in Threads |-> IdlePc],
     w |-> [l \in Locks |-> NoThread],
     r |-> [l \in Locks |-> [t \in Threads |-> 0]],
     pending |-> [l \in Locks |-> {}]]

dataVars ==
    <<regVars, stVars, connVars, diskVars, started, cfgNodes, clock, now, senders,
      nConns, crashed, last, pair, running>>

\* Thread t is inside a method, before one of its steps.
Busy(t) == conc.pc[t].op # "" /\ conc.pc[t].i <= Len(Path(conc.pc[t].op))

\* The step thread t takes next.
Instr(t) == Path(conc.pc[t].op)[conc.pc[t].i]

At(t, ks) == Busy(t) /\ Instr(t).k \in ks

Free(l) == conc.w[l] = NoThread /\ \A u \in Threads : conc.r[l][u] = 0

Call(t, op) ==
    /\ conc.pc[t] = IdlePc
    /\ conc' = [conc EXCEPT !.pc[t] = [op |-> op, i |-> 1]]
    /\ UNCHANGED dataVars

\* l.Lock(): the thread announces itself, then waits until l is free.
LockRequest(t) ==
    /\ At(t, {"Lock"})
    /\ t \notin conc.pending[Instr(t).x]
    /\ conc' = [conc EXCEPT !.pending[Instr(t).x] = @ \cup {t}]
    /\ UNCHANGED dataVars

LockObtain(t) ==
    /\ At(t, {"Lock"})
    /\ t \in conc.pending[Instr(t).x]
    /\ Free(Instr(t).x)
    /\ conc' = [conc EXCEPT !.pending[Instr(t).x] = @ \ {t},
                            !.w[Instr(t).x] = t,
                            !.pc[t].i = @ + 1]
    /\ UNCHANGED dataVars

RLockObtain(t) ==
    /\ At(t, {"RLock"})
    /\ conc.w[Instr(t).x] = NoThread
    /\ conc.pending[Instr(t).x] = {}
    /\ conc' = [conc EXCEPT !.r[Instr(t).x][t] = @ + 1, !.pc[t].i = @ + 1]
    /\ UNCHANGED dataVars

UnlockStep(t) ==
    /\ At(t, {"Unlock"})
    /\ conc' = [conc EXCEPT !.w[Instr(t).x] = NoThread, !.pc[t].i = @ + 1]
    /\ UNCHANGED dataVars

RUnlockStep(t) ==
    /\ At(t, {"RUnlock"})
    /\ conc' = [conc EXCEPT !.r[Instr(t).x][t] = @ - 1, !.pc[t].i = @ + 1]
    /\ UNCHANGED dataVars

\* A read or a write of one of the maps.
Access(t) ==
    /\ At(t, {"read", "write"})
    /\ conc' = [conc EXCEPT !.pc[t].i = @ + 1]
    /\ UNCHANGED dataVars

\* A send or close on a connection, a read or write of the disk, a write to
\* the index store.
PerformIO(t) ==
    /\ At(t, {"io"})
    /\ conc' = [conc EXCEPT !.pc[t].i = @ + 1]
    /\ UNCHANGED dataVars

Return(t) ==
    /\ conc.pc[t].op # ""
    /\ ~Busy(t)
    /\ conc' = [conc EXCEPT !.pc[t] = IdlePc]
    /\ UNCHANGED dataVars

(***************************************************************************)
(* The Model after NewModel (model.go:105-137), with an empty database,    *)
(* a configuration that knows n1 as an introducer and n2 as a plain node,  *)
(* and empty repository directories.                                       *)
(***************************************************************************)
\* No sendIndexTo call and no scan is under way.
NoSend == [active |-> FALSE, initial |-> FALSE, batch |-> <<>>, currentBatchSize |-> 0,
           maxLocalVer |-> 0, sent |-> <<>>]
NoScan == [op |-> "", repo |-> "", ignores |-> {}]
NoCalls == [send |-> NoSend, scan |-> [t \in Threads |-> NoScan]]

PairIdle == [sets |-> <<EmptySet, EmptySet>>, queue |-> <<<<>>, <<>>>>,
             sentInit |-> <<FALSE, FALSE>>, clock |-> <<0, 0>>]

InitWith(cfg) ==
    /\ repoCfgs = <<>>
    /\ repoFiles = [r \in Repos |-> EmptySet]
    /\ repoNodes = <<>>
    /\ nodeRepos = [n \in Nodes |-> <<>>]
    /\ nodeStatRefs = {}
    /\ repoIgnores = [r \in Repos |-> {}]
    /\ repoState = [r \in Repos |-> RepoIdle]
    /\ repoStateChanged = [r \in Repos |-> NoTime]
    /\ protoConn = <<>>
    /\ rawConn = <<>>
    /\ nodeVer = {}
    /\ started = FALSE
    /\ cfgNodes = cfg
    /\ clock = 0
    /\ now = 0
    /\ disk = [r \in Repos |-> [n \in Names |-> 0]]
    /\ diskDirty = [r \in Repos |-> {}]
    /\ stignore = [r \in Repos |-> {}]
    /\ senders = [n \in Nodes |-> <<>>]
    /\ nConns = [n \in Nodes |-> 0]
    /\ crashed = FALSE
    /\ last = Op("NewModel", "", "", <<>>, "", <<>>)
    /\ conc = ConcIdle
    /\ running = NoCalls

\* The configuration knows n1 as an introducer and n2 as a plain node.
BothConfigured ==
    ("n1" :> [introducer |-> TRUE, name |-> ""])
    @@ ("n2" :> [introducer |-> FALSE, name |-> ""])

InitModel == InitWith(BothConfigured)

Init == InitModel /\ pair = PairIdle

(***************************************************************************)
(* The registry: repositories, the sharing graph and the connections that  *)
(* bring ClusterConfig messages.                                           *)
(***************************************************************************)
\* Lists of distinct nodes.
NodeLists ==
    {ns \in SeqsUpTo(Nodes, MaxListLen) :
        \A i, j \in 1..Len(ns) : i # j => ns[i] # ns[j]}

GraphMessages ==
    {cm \in CCMessages : cm.name = "" /\ \A i \in 1..Len(cm.repos) :
                                           /\ Len(cm.repos[i].nodes) = 1
                                           /\ ~cm.repos[i].nodes[1].introducer}

NextGraph ==
    \/ \E id \in Repos \cup {""}, nodes \in NodeLists : AddRepo(id, nodes)
    \/ \E n \in Nodes : AddConnection(n)
    \/ \E n \in Nodes : Close(n)
    \/ \E n \in Nodes, cm \in GraphMessages : ClusterConfig(n, cm)

SpecGraph == Init /\ [][NextGraph]_vars

(***************************************************************************)
(* The start-up code registers each configured repository once.            *)
(***************************************************************************)
Register(id, nodes) == id \notin DOMAIN repoCfgs /\ AddRepo(id, nodes)

(***************************************************************************)
(* A session: r1 is shared with n1, both nodes connect, and the peers      *)
(* announce their indexes while the ignore patterns change.                *)
(***************************************************************************)
EmptyCC == [name |-> "", repos |-> <<>>]

\* The lists announced in a session: plain files at their first version, in
\* name order.
SessionLists ==
    {fs \in InLists : /\ \A i \in 1..Len(fs) : fs[i].flags = {} /\ fs[i].version = 1
                      /\ \A i \in 1..Len(fs) : fs[i].name = NameOrder[i]}

\* The lists announced to the filter: plain files.
FilterLists == {fs \in InLists : \A i \in 1..Len(fs) : fs[i].flags = {}}

Next ==
    \/ \E r \in Repos : Register(r, <<"n1">>)
    \/ \E n \in Nodes : AddConnection(n)
    \/ \E n \in Nodes : Close(n)
    \/ \E n \in Nodes : ClusterConfig(n, EmptyCC)
    \/ \E n \in Nodes, r \in Repos, fs \in SessionLists : Index(n, r, fs)
    \/ \E n \in Nodes, r \in Repos, fs \in SessionLists : IndexUpdate(n, r, fs)

Spec == Init /\ [][Next]_vars


(***************************************************************************)
(* Claims about the sharing graph, under SpecGraph.                        *)
(***************************************************************************)

\* C1: in every reachable state, for every repo r and node n, n is in
\* repoNodes[r] if and only if r is in nodeRepos[n].
C1_SharingGraphSymmetric ==
    \A r \in Repos, n \in Nodes :
       (r \in DOMAIN repoNodes /\ InSeq(repoNodes[r], n)) <=> InSeq(nodeRepos[n], r)

(***************************************************************************)
(* Claims about a session, under Spec.                                     *)
(***************************************************************************)
allButLast ==
    <<repoCfgs, repoFiles, repoNodes, nodeRepos, nodeStatRefs, repoIgnores,
      repoState, repoStateChanged, protoConn, rawConn, nodeVer, started,
      cfgNodes, clock, now, disk, diskDirty, stignore, senders, nConns,
      crashed, pair, conc, running>>

\* C2: an Index or IndexUpdate call from node n for repo r with r not in
\* nodeRepos[n] at the time of the call changes nothing: no replica, not the
\* clock, and n stays in the connection maps.
C2_UnauthorizedIndexChangesNothing ==
    [][(/\ last'.op \in {"Index", "IndexUpdate"}
        /\ ~InSeq(nodeRepos[last'.node], last'.repo))
       => UNCHANGED allButLast]_vars

\* An unauthorized IndexUpdate with two entries arrived on a live connection
\* after an authorized peer had filled its replica.
C2_Witness ==
    /\ last.op = "IndexUpdate"
    /\ ~InSeq(nodeRepos[last.node], last.repo)
    /\ Len(last.arg) = 2
    /\ last.node \in DOMAIN protoConn
    /\ Have(repoFiles["r1"], "n1") # {}

\* C3: a node that is not connected (Close has completed and no
\* AddConnection followed) is absent from protoConn, rawConn and nodeVer, and
\* its replica is empty in every repo listed in nodeRepos[n].
C3_ClosedNodeRetracted ==
    \A n \in Nodes :
       n \notin DOMAIN protoConn =>
          /\ n \notin DOMAIN rawConn
          /\ n \notin nodeVer
          /\ \A i \in 1..Len(nodeRepos[n]) : Have(repoFiles[nodeRepos[n][i]], n) = {}
          /\ \A r \in Repos, name \in Names :
                HasGlobal(repoFiles[r], name) => GlobalOwner(repoFiles[r], name) # n

\* Close of n1, which shares both repos and had announced entries in both.
C3_Witness ==
    /\ last.op = "Close"
    /\ last.node = "n1"
    /\ InSeq(nodeRepos["n1"], "r1")
    /\ InSeq(nodeRepos["n1"], "r2")
    /\ LocalVersionOf(repoFiles["r1"], "n1") > 0
    /\ LocalVersionOf(repoFiles["r2"], "n1") > 0
    /\ "n1" \notin DOMAIN protoConn

(***************************************************************************)
(* The ignore filter: n1 announces its index of r1 while the ignore        *)
(* patterns of r1 change.                                                  *)
(***************************************************************************)
NextFilter ==
    \/ Register("r1", <<"n1">>)
    \/ AddConnection("n1")
    \/ \E ign \in {{"a"}, Names} : SetIgnores("r1", ign, FALSE)
    \/ \E fs \in FilterLists : Index("n1", "r1", fs)
    \/ \E fs \in FilterLists : IndexUpdate("n1", "r1", fs)

SpecFilter == Init /\ [][NextFilter]_vars

(***************************************************************************)
(* Claims about the ignore filter, under SpecFilter.                       *)
(***************************************************************************)

\* The entries of fs whose names the patterns ign do not match.
KeptOf(fs, ign) == {fs[i] : i \in {j \in 1..Len(fs) : fs[j].name \notin ign}}

\* C5: after an authorized Index(n, r, fs) the replica of n in r holds
\* exactly the entries of fs whose names the ignore patterns of r do not
\* match, wherever they sit in fs; an authorized IndexUpdate upserts those
\* entries and removes no other; the RemoteIndexUpdated event's items is the
\* number of entries kept.
C5_IndexKeepsUnignored ==
    [][(last'.op \in {"Index", "IndexUpdate"} /\ last'.ret = "")
       => LET n == last'.node
              r == last'.repo
              kept == KeptOf(last'.arg, repoIgnores[r])
          IN /\ \A name \in Names :
                   IF \E f \in kept : f.name = name
                   THEN Content(Get(repoFiles'[r], n, name)) \in kept
                   ELSE IF last'.op = "Index"
                   THEN Get(repoFiles'[r], n, name) = ZeroFile
                   ELSE Get(repoFiles'[r], n, name) = Get(repoFiles[r], n, name)
             /\ \A o \in AllNodes \ {n} :
                   repoFiles'[r].files[o] = repoFiles[r].files[o]
             /\ last'.events = <<RemoteIndexUpdated(n, r, Cardinality(kept))>>]_vars

\* An Index whose two entries both match the ignore patterns replaced a
\* replica that held entries: nothing is left of it.
C5_Witness ==
    /\ last.op = "Index"
    /\ last.ret = ""
    /\ Len(last.arg) = 2
    /\ SeqNames(last.arg) \subseteq repoIgnores[last.repo]
    /\ last.events[1].items = 0
    /\ LocalVersionOf(repoFiles[last.repo], last.node) > 0

(***************************************************************************)
(* The state of a repository: the puller's transitions, scans and          *)
(* overrides while time passes.                                            *)
(***************************************************************************)
NextState ==
    \/ \E r \in Repos : AddRepo(r, <<"n1">>)
    \/ \E r \in Repos, s \in States : SetState(r, s)
    \/ AdvanceTime
    \/ \E r \in Repos : Override(r)
    \/ \E r \in Repos, sub \in {"", ".."}, e \in BOOLEAN : ScanRepoSub(r, sub, e)

SpecState == Init /\ [][NextState]_vars

(***************************************************************************)
(* Claims about the repository state, under SpecState.                     *)
(***************************************************************************)

\* What setState(r, s) does to the state maps in every case.
setStateEffect(r, s) ==
    IF s = repoState[r]
    THEN /\ last'.events = <<>>
         /\ repoState'[r] = repoState[r]
         /\ repoStateChanged'[r] = repoStateChanged[r]
    ELSE /\ repoState'[r] = s
         /\ repoStateChanged'[r] = now
         /\ Len(last'.events) = 1
         /\ last'.events[1].type = "StateChanged"
         /\ last'.events[1].repo = r
         /\ last'.events[1].to = s

\* The event carries from, the previous state, and duration.
carriesFrom(r) ==
    /\ {"from", "duration"} \subseteq last'.events[1].keys
    /\ last'.events[1].from = repoState[r]
    /\ last'.events[1].duration = now - repoStateChanged[r]

\* C10 as stated: setState(r, s) with s the current state emits nothing and
\* changes nothing; otherwise it sets the state, stamps repoStateChanged[r]
\* and emits one StateChanged event with to, from and duration, for every
\* real transition, the first one of a repo included.
C10_EveryTransitionCarriesFrom ==
    [][last'.op = "setState"
       => /\ setStateEffect(last'.repo, last'.arg)
          /\ last'.arg # repoState[last'.repo] => carriesFrom(last'.repo)]_vars

\* C10 as amended: the event carries from and duration for every real
\* transition except the first one of a repo, whose event carries only
\* repo and to.
C10_TransitionCarriesFromAfterFirst ==
    [][last'.op = "setState"
       => /\ setStateEffect(last'.repo, last'.arg)
          /\ last'.arg # repoState[last'.repo] =>
                IF repoStateChanged[last'.repo] = NoTime
                THEN last'.events[1].keys = {"repo", "to"}
                ELSE carriesFrom(last'.repo)]_vars

\* A later transition of a repo, some time after the previous one.
C10_Witness ==
    /\ last.op = "setState"
    /\ Len(last.events) = 1
    /\ "from" \in last.events[1].keys
    /\ last.events[1].from = RepoSyncing
    /\ last.events[1].duration > 0


(***************************************************************************)
(* Requests: r1 is registered, files are written to its directory and      *)
(* committed to its index, and peers request blocks.                       *)
(***************************************************************************)
NextRequest ==
    \/ Register("r1", <<"n1">>)
    \/ \E f \in {g \in InFiles : g.version = 1} : updateLocal("r1", f)
    \/ \E name \in Names : DiskWrite("r1", name, 1)
    \/ \E name \in Names : DiskRemove("r1", name)
    \/ \E n \in Nodes, r \in Repos, name \in Names, offset \in 0..MaxOffset,
          size \in 0..MaxSize : Request(n, r, name, offset, size)

SpecRequest == Init /\ [][NextRequest]_vars

\* C4: Request returns ErrNoSuchFile when the repo is unknown, when the name
\* has no entry in the local replica (for every offset) or when offset is
\* greater than the entry's size, and ErrInvalid when the local entry is
\* Invalid or Deleted; in all these cases it returns no bytes.
C4_RequestErrors ==
    last.op = "Request" =>
       LET lf == Get(repoFiles[last.repo], LocalNodeID, last.arg.name)
           known == last.repo \in DOMAIN repoCfgs
       IN /\ ~known => last.ret = [err |-> ErrNoSuchFile, data |-> NoData]
          /\ (known /\ lf.name = "") =>
                last.ret = [err |-> ErrNoSuchFile, data |-> NoData]
          /\ (known /\ lf.name # "" /\ (IsInvalid(lf) \/ IsDeleted(lf))) =>
                last.ret = [err |-> ErrInvalid, data |-> NoData]
          /\ (known /\ lf.name # "" /\ ~IsInvalid(lf) /\ ~IsDeleted(lf)
                /\ last.arg.offset > FileSize(lf)) =>
                last.ret = [err |-> ErrNoSuchFile, data |-> NoData]

(***************************************************************************)
(* Override: two peers announce their indexes of r1, the puller commits    *)
(* files, and the local replica is made the winner.                        *)
(***************************************************************************)
OverrideLists ==
    {fs \in InLists : /\ \A i \in 1..Len(fs) : fs[i].flags = {}
                      /\ \A i \in 1..Len(fs) : fs[i].name = NameOrder[i]}

\* n1 announces both files, n2 at most the first.
PeerLists(n) ==
    IF n = "n1" THEN OverrideLists ELSE {fs \in OverrideLists : Len(fs) <= 1}

\* The files the puller commits: the first version of a file.
PulledFiles == {f \in InFiles : f.version = 1 /\ f.flags = {}}

NextOverride ==
    \/ Register("r1", <<"n1", "n2">>)
    \/ \E n \in Nodes : AddConnection(n)
    \/ \E n \in Nodes : \E fs \in PeerLists(n) : Index(n, "r1", fs)
    \/ \E f \in PulledFiles : updateLocal("r1", f)
    \/ \E r \in Repos : Override(r)

SpecOverride == Init /\ [][NextOverride]_vars

\* C6: after Override(r), need(local) of r is empty, and for every name that
\* was in need(local) before the call the global entry is the local
\* replica's, with a version strictly greater than every version of that
\* name in a peer replica; a name the local replica lacked is a Deleted
\* tombstone without blocks, any other keeps its local content.
C6_OverrideWins ==
    [][(last'.op = "Override" /\ last'.ret = "")
       => LET before == repoFiles[last'.repo]
              after == repoFiles'[last'.repo]
          IN /\ Need(after, LocalNodeID) = {}
             /\ \A name \in Need(before, LocalNodeID) :
                   LET was == Get(before, LocalNodeID, name)
                       is == Get(after, LocalNodeID, name)
                   IN /\ GlobalOwner(after, name) = LocalNodeID
                      /\ \A n \in Nodes :
                            Get(after, n, name).name # "" =>
                               is.version > Get(after, n, name).version
                      /\ was.name = "" => IsDeleted(is) /\ is.blocks = 0
                      /\ was.name # "" =>
                            /\ is.flags = was.flags
                            /\ is.blocks = was.blocks]_vars

\* Override found two names in need(local): one the local replica lacked and
\* one it held at an older version.
C6_Witness ==
    /\ last.op = "Override"
    /\ last.ret = ""
    /\ last.arg = Names
    /\ \E x, y \in Names :
          /\ IsDeleted(Get(repoFiles["r1"], LocalNodeID, x))
          /\ ~IsDeleted(Get(repoFiles["r1"], LocalNodeID, y))
          /\ Get(repoFiles["r1"], "n1", y).version > 1


(***************************************************************************)
(* The index sender: r1 is shared with n1, which connects and reconnects;  *)
(* the puller commits large files and the sender tasks run.                *)
(***************************************************************************)
LargeFiles == {FileInfo(name, {}, 1, BigBlocks) : name \in Names}

NextSender ==
    \/ Register("r1", <<"n1">>)
    \/ AddConnection("n1")
    \/ Close("n1")
    \/ \E f \in LargeFiles : updateLocal("r1", f)
    \/ \E i \in 1..MaxConns, failAt \in 0..MaxFailAt :
          i <= Len(senders["n1"]) /\ SenderInitial("n1", i, failAt)
    \/ \E i \in 1..MaxConns : i <= Len(senders["n1"]) /\ SenderWake("n1", i)
    \/ \E i \in 1..MaxConns, failAt \in 0..MaxFailAt :
          i <= Len(senders["n1"]) /\ SenderUpdate("n1", i, failAt)

SpecSender == Init /\ [][NextSender]_vars

(***************************************************************************)
(* The index sender and the ignore patterns: n1 connects once; files are   *)
(* written to r1's directory and scanned while the ignore patterns change, *)
(* and the sender task runs.                                               *)
(***************************************************************************)
NextSenderIgnores ==
    \/ Register("r1", <<"n1">>)
    \/ (nConns["n1"] = 0 /\ AddConnection("n1"))
    \/ Close("n1")
    \/ \E name \in Names : DiskWrite("r1", name, BigBlocks)
    \/ \E ign \in {{}, {"a"}} : SetIgnores("r1", ign, FALSE)
    \/ \E failAt \in 0..MaxFailAt :
          Len(senders["n1"]) >= 1 /\ SenderInitial("n1", 1, failAt)
    \/ (Len(senders["n1"]) >= 1 /\ SenderWake("n1", 1))
    \/ \E failAt \in 0..MaxFailAt :
          Len(senders["n1"]) >= 1 /\ SenderUpdate("n1", 1, failAt)

SpecSenderIgnores == Init /\ [][NextSenderIgnores]_vars

\* C7: the first message a sender task sends is an Index, sent also when the
\* local replica has no entry to send; the task sends exactly one Index and
\* every later message is an IndexUpdate.
C7_OneIndexFirst ==
    \A n \in Nodes : \A i \in 1..Len(senders[n]) :
       LET t == senders[n][i]
       IN /\ t.pc # "initial" => Len(t.kinds) >= 1
          /\ Len(t.kinds) >= 1 => t.kinds[1] = "Index"
          /\ \A k \in 2..Len(t.kinds) : t.kinds[k] = "IndexUpdate"

\* One task sent an Index with no entry; another sent its Index and two
\* IndexUpdates.
C7_Witness ==
    \E i, j \in 1..Len(senders["n1"]) :
       /\ senders["n1"][i].batches = <<Msg("Index", <<>>)>>
       /\ senders["n1"][j].kinds = <<"Index", "IndexUpdate", "IndexUpdate">>

\* C8: while no send fails, a sender task passes over no entry above its
\* watermark whose name the repo's ignore patterns do not match, so every
\* such entry is sent.
C8_NoEntryPassedOver ==
    \A n \in Nodes : \A i \in 1..Len(senders[n]) :
       senders[n][i].pc # "done" => senders[n][i].missed = {}


(***************************************************************************)
(* Two nodes that share a repository, each a Model with its own IndexSet   *)
(* and clock.  pair.sets[i] is the IndexSet of node i, which holds the     *)
(* other node's replica under PairPeer; pair.queue[i] holds the messages   *)
(* on their way to node i.  Each node's sender makes its initial           *)
(* sendIndexTo call (model.go:802) and each node's Index and IndexUpdate   *)
(* process what arrives (model.go:378-460), with no ignore patterns.       *)
(***************************************************************************)
PairPeer == "n1"

PairEntries(name) ==
    {ZeroFile} \cup
    {FileInfo(name, fb[1], v, fb[2]) :
        v \in 1..MaxInVersion,
        fb \in {<<{}, BigBlocks>>, <<{FlagDeleted}, 0>>, <<{FlagInvalid}, 1>>}}

\* The contents of a local replica, and the orders in which its entries may
\* have been written.
PairContents == {c \in [Names -> UNION {PairEntries(n) : n \in Names}] :
                    \A n \in Names : c[n] \in PairEntries(n)}
HeldIn(c) == {n \in Names : c[n].name # ""}
PairOrders(c) ==
    {o \in [HeldIn(c) -> 1..Cardinality(HeldIn(c))] :
        \A x, y \in HeldIn(c) : x # y => o[x] # o[y]}

\* The IndexSet of a node whose local replica has content c written in order o.
PairSet(c, o) ==
    [files |-> [EmptySet.files EXCEPT ![LocalNodeID] =
                  [n \in Names |-> IF n \in HeldIn(c)
                                   THEN [c[n] EXCEPT !.localVersion = o[n]]
                                   ELSE ZeroFile]],
     lv |-> [EmptySet.lv EXCEPT ![LocalNodeID] = Cardinality(HeldIn(c))]]

InitPair ==
    /\ InitModel
    /\ \E c \in PairContents : \E o1, o2 \in PairOrders(c) :
          pair = [PairIdle EXCEPT !.sets = <<PairSet(c, o1), PairSet(c, o2)>>]

\* Node i's sender task makes its initial call; the messages go to the other.
PairSend(i) ==
    /\ ~pair.sentInit[i]
    /\ LET res == sendIndexTo(TRUE, 0, pair.sets[i], {})
       IN pair' = [pair EXCEPT !.queue[3 - i] = @ \o res.msgs,
                               !.sentInit[i] = TRUE]
    /\ UNCHANGED <<regVars, stVars, connVars, diskVars, started, cfgNodes, clock,
                   now, senders, nConns, crashed, last, conc, running>>

\* Node i processes the next message that arrived.
PairReceive(i) ==
    /\ pair.queue[i] # <<>>
    /\ LET m == Head(pair.queue[i])
           res == filterLoop(m.batch, 1, {}, pair.clock[i])
       IN pair' = [pair EXCEPT
                     !.queue[i] = Tail(@),
                     !.clock[i] = res.clock,
                     !.sets[i] = indexApply(m.kind, @, PairPeer, res.fs)]
    /\ UNCHANGED <<regVars, stVars, connVars, diskVars, started, cfgNodes, clock,
                   now, senders, nConns, crashed, last, conc, running>>

NextPair ==
    \/ \E i \in 1..2 : PairSend(i)
    \/ \E i \in 1..2 : PairReceive(i)

SpecPair == InitPair /\ [][NextPair]_vars

\* Both nodes have sent their initial index and processed the other's.
PairDone ==
    /\ pair.sentInit = <<TRUE, TRUE>>
    /\ pair.queue = <<<<>>, <<>>>>

\* C9: two nodes whose local replicas are equal hold, once each has sent its
\* initial index and the other has processed it, in either order, the same
\* global view, and on both need(local) and need(peer) are empty.
C9_PairConverges ==
    PairDone =>
       /\ \A name \in Names :
             Content(GetGlobal(pair.sets[1], name))
                = Content(GetGlobal(pair.sets[2], name))
       /\ \A i \in 1..2 :
             /\ Need(pair.sets[i], LocalNodeID) = {}
             /\ Need(pair.sets[i], PairPeer) = {}

\* The exchange is over between two nodes that hold both files, written in
\* different orders, each index going out as an Index and an IndexUpdate.
C9_Witness ==
    /\ PairDone
    /\ \A i \in 1..2 : Have(pair.sets[i], PairPeer) = Names
    /\ \A name \in Names : Get(pair.sets[1], LocalNodeID, name).blocks = BigBlocks
    /\ Get(pair.sets[1], LocalNodeID, "a").localVersion
          # Get(pair.sets[2], LocalNodeID, "a").localVersion

(***************************************************************************)
(* Introductions: repositories are registered, also a second time with     *)
(* another list of nodes; peers connect and announce the repositories and  *)
(* nodes they know.                                                        *)
(***************************************************************************)
\* The messages of an introduction: a name alone, or r1 with one node or
\* with two plain nodes.
IntroMessages ==
    {cm \in CCMessages :
        /\ cm.name = "x" => cm.repos = <<>>
        /\ \A i \in 1..Len(cm.repos) :
              LET ns == cm.repos[i].nodes
              IN /\ cm.repos[i].id = "r1"
                 /\ Len(ns) >= 1
                 /\ \A j, k \in 1..Len(ns) : j # k => ns[j].id # ns[k].id
                 /\ Len(ns) = 2 => \A j \in 1..2 : ~ns[j].introducer}

\* The configuration knows the introducer n1 alone.
InitIntroducer ==
    /\ InitWith("n1" :> [introducer |-> TRUE, name |-> ""])
    /\ pair = PairIdle

NextIntroducer ==
    \/ \E ns \in NodeLists : AddRepo("r1", ns)
    \/ \E n \in Nodes : AddConnection(n)
    \/ \E n \in Nodes, cm \in IntroMessages : ClusterConfig(n, cm)

SpecIntroducer == InitIntroducer /\ [][NextIntroducer]_vars

\* What a ClusterConfig(n, cm) step of an introducer n leaves behind.
introduced(cm) ==
    \A i \in 1..Len(cm.repos) :
       cm.repos[i].id \in DOMAIN repoNodes =>
          \A j \in 1..Len(cm.repos[i].nodes) :
             LET r == cm.repos[i].id
                 id == cm.repos[i].nodes[j].id
             IN /\ id \in DOMAIN cfgNodes'
                /\ Count(nodeRepos'[id], r) = 1
                /\ Count(repoNodes'[r], id) = 1

\* C11: after ClusterConfig from a peer marked Introducer, every node
\* announced for a repo that exists locally is in the configuration and
\* appears exactly once in nodeRepos and repoNodes for that repo; the
\* configuration is persisted if and only if something was added, and the
\* same message delivered a second time changes nothing and persists nothing.
C11_IntroducerAddsOnce ==
    [][(/\ last'.op = "ClusterConfig"
        /\ last'.ret # "panic"
        /\ cfgNodes[last'.node].introducer)
       => /\ introduced(last'.arg)
          /\ last'.ret = "saved" <=> <<cfgNodes, nodeRepos, repoNodes>>' #
                                        <<cfgNodes, nodeRepos, repoNodes>>
          /\ (last.op = "ClusterConfig" /\ last.node = last'.node
                /\ last.arg = last'.arg /\ last.ret # "panic")
             => /\ UNCHANGED <<cfgNodes, nodeRepos, repoNodes>>
                /\ last'.ret = ""]_vars

(***************************************************************************)
(* Starting a repository.  StartRepoRW (model.go:142-167) looks the repo   *)
(* up and panics when it is not registered, then hands it to a Puller;     *)
(* StartRepoRO (model.go:172-190) spawns the periodic rescan, whose scans  *)
(* are the ScanRepoSub steps.  Neither assigns m.started: the field is     *)
(* read by AddRepo (model.go:918) and written nowhere.                     *)
(***************************************************************************)
StartRepoRW(repo) ==
    /\ ~crashed
    /\ crashed' = (repo \notin DOMAIN repoCfgs)
    /\ last' = Op("StartRepoRW", "", repo, <<>>,
                  IF repo \in DOMAIN repoCfgs THEN "" ELSE "panic", <<>>)
    /\ UNCHANGED <<regVars, stVars, connVars, diskVars, started, cfgNodes, clock, now,
                   senders, nConns, pair, conc, running>>

StartRepoRO(repo) ==
    /\ ~crashed
    /\ last' = Op("StartRepoRO", "", repo, <<>>, "", <<>>)
    /\ UNCHANGED <<regVars, stVars, connVars, diskVars, started, cfgNodes, clock, now,
                   senders, nConns, crashed, pair, conc, running>>

NextStart ==
    \/ \E id \in Repos \cup {""}, ns \in NodeLists : AddRepo(id, ns)
    \/ \E r \in Repos : StartRepoRW(r)
    \/ \E r \in Repos : StartRepoRO(r)

SpecStart == Init /\ [][NextStart]_vars

\* C12: once StartRepoRW or StartRepoRO has been called, an AddRepo call
\* panics and leaves repoCfgs, repoFiles, repoNodes and nodeRepos unchanged
\* (stated for the AddRepo that directly follows the start).
C12_AddRepoAfterStartPanics ==
    [][(/\ last.op \in {"StartRepoRW", "StartRepoRO"}
        /\ last.ret # "panic"
        /\ last'.op = "AddRepo")
       => /\ last'.ret = "panic"
          /\ UNCHANGED <<repoCfgs, repoFiles, repoNodes, nodeRepos>>]_vars

(***************************************************************************)
(* Claims about the connection table, under Spec.                          *)
(***************************************************************************)

\* C13: a node is in protoConn and rawConn exactly from its AddConnection to
\* its Close: the two maps always have the same keys, an AddConnection for a
\* connected node panics and replaces nothing, an AddConnection for a node
\* that is not connected (also right after its Close) succeeds and enters it
\* in both maps, Close removes it from both, and no other operation changes
\* the keys.
C13_ConnectedFromAddToClose ==
    /\ [](DOMAIN protoConn = DOMAIN rawConn)
    /\ [][/\ (last'.op = "AddConnection" /\ last'.node \in DOMAIN protoConn)
               => last'.ret = "panic" /\ UNCHANGED <<protoConn, rawConn>>
          /\ (last'.op = "AddConnection" /\ last'.node \notin DOMAIN protoConn)
               => /\ last'.ret = ""
                  /\ DOMAIN protoConn' = DOMAIN protoConn \cup {last'.node}
                  /\ DOMAIN rawConn' = DOMAIN rawConn \cup {last'.node}
                  /\ protoConn'[last'.node] = rawConn'[last'.node]
          /\ last'.op = "Close"
               => /\ last'.node \in DOMAIN protoConn
                  /\ DOMAIN protoConn' = DOMAIN protoConn \ {last'.node}
                  /\ DOMAIN rawConn' = DOMAIN rawConn \ {last'.node}
          /\ last'.op \notin {"AddConnection", "Close"}
               => UNCHANGED <<protoConn, rawConn>>]_vars

\* A node that was connected and closed is connected again: the call
\* succeeded and both maps hold its second connection.
C13_Witness ==
    /\ last.op = "AddConnection"
    /\ last.ret = ""
    /\ last.node \in DOMAIN protoConn
    /\ protoConn[last.node] = 2
    /\ rawConn[last.node] = 2
    /\ nConns[last.node] = 2

(***************************************************************************)
(* Scans: files are written to and removed from r1's directory, the ignore *)
(* patterns change, and the repo is scanned as a whole or below one name.  *)
(***************************************************************************)
NextScan ==
    \/ Register("r1", <<"n1">>)
    \/ \E name \in Names : DiskWrite("r1", name, 1)
    \/ \E name \in Names : DiskRemove("r1", name)
    \/ \E ign \in {{}, {"a"}} : SetIgnores("r1", ign, FALSE)
    \/ \E sub \in {"", "a", ".."}, e \in BOOLEAN : ScanRepoSub("r1", sub, e)

SpecScan == Init /\ [][NextScan]_vars

\* The step is a scan of a repo whose previous operation was a completed
\* scan that covered at least the same files: the disk and the ignore
\* patterns are as that scan saw them.
Rescan ==
    /\ last'.op = "ScanRepoSub"
    /\ last'.repo = last.repo
    /\ last.ret = "nil"
    /\ \/ last.op = "SetIgnores"
       \/ last.op = "ScanRepoSub" /\ (last.arg = "" \/ last.arg = last'.arg)

\* C14: a ScanRepoSub that observes no disk change and no ignore-pattern
\* change since the previous scan leaves the replicas of the repo unchanged:
\* no entry's version or flags change, no Deleted or Invalid entry is bumped
\* again, the clock is not ticked and CurrentLocalVersion stays the same.
C14_RescanChangesNothing ==
    [][Rescan => /\ repoFiles'[last'.repo] = repoFiles[last'.repo]
                 /\ clock' = clock]_vars

\* A scan over a local replica that holds a Deleted tombstone and an entry
\* that is neither Deleted nor Invalid ran to its end and wrote no entry.
C14_Witness ==
    /\ last.op = "ScanRepoSub"
    /\ last.ret = "nil"
    /\ last.arg = ""
    /\ last.repo \in DOMAIN repoCfgs
    /\ \A i \in 1..Len(last.events) : last.events[i].type # "LocalIndexUpdated"
    /\ LET have == WithHave(repoFiles[last.repo], LocalNodeID)
       IN /\ \E i \in 1..Len(have) : IsDeleted(have[i])
          /\ \E i \in 1..Len(have) : ~IsDeleted(have[i]) /\ ~IsInvalid(have[i])

(***************************************************************************)
(* The sender tasks are goroutines: a task that can take its next step     *)
(* takes it eventually.  Nothing obliges the peers, the puller or the      *)
(* transport to act.                                                       *)
(***************************************************************************)
SenderStep(i) ==
    /\ i <= Len(senders["n1"])
    /\ \/ \E failAt \in 0..MaxFailAt : SenderInitial("n1", i, failAt)
       \/ SenderWake("n1", i)
       \/ \E failAt \in 0..MaxFailAt : SenderUpdate("n1", i, failAt)

SpecSenderFair ==
    /\ Init
    /\ [][NextSender]_vars
    /\ \A i \in 1..MaxConns : WF_vars(SenderStep(i))

\* C15: after Close(n) every sender task spawned for n on the closed
\* connection eventually terminates, also when the local replica never
\* changes again; a task that has terminated takes no further step and sends
\* nothing.
C15_SendersEndAfterClose ==
    /\ \A i \in 1..MaxConns :
          (i <= Len(senders["n1"]) /\ ~Live(senders["n1"][i]))
             ~> (i <= Len(senders["n1"]) /\ senders["n1"][i].pc = "done")
    /\ [][\A i \in 1..Len(senders["n1"]) :
             senders["n1"][i].pc = "done" => senders'["n1"][i] = senders["n1"][i]]_vars

(***************************************************************************)
(* The logical clock: the peer n1 announces its files for r1 while "a" is  *)
(* ignored or not, the file "ab" comes and goes in r1's directory, and the  *)
(* repo is scanned and overridden.                                         *)
(***************************************************************************)
\* The lists n1 announces: "a" alone, or "a" and then "ab" with another
\* version.
ClockLists ==
    {fs \in FilterLists : /\ Len(fs) >= 1 => fs[1].name = "a"
                          /\ Len(fs) = 2 => fs[1].version # fs[2].version}

NextClock ==
    \/ Register("r1", <<"n1">>)
    \/ (nConns["n1"] = 0 /\ AddConnection("n1"))
    \/ SetIgnores("r1", {"a"}, FALSE)
    \/ \E fs \in ClockLists : Index("n1", "r1", fs)
    \/ IndexUpdate("n1", "r1", <<FileInfo("a", {}, MaxInVersion, 1)>>)
    \/ DiskWrite("r1", "ab", 1)
    \/ DiskRemove("r1", "ab")
    \/ ScanRepoSub("r1", "", FALSE)
    \/ Override("r1")

SpecClock == Init /\ [][NextClock]_vars

\* C16: the clock never decreases; once an authorized Index or IndexUpdate
\* has been processed the clock is above every version of the message, the
\* versions of the entries the ignore filter dropped included; and every
\* version a local mutation (ScanRepoSub, SetIgnores, Override) stamps on a
\* local entry is above the clock it found.  Hence every version stamped
\* after the message is strictly greater than every version in it.
C16_LocalVersionsDominate ==
    [][/\ clock' >= clock
       /\ (last'.op \in {"Index", "IndexUpdate"} /\ last'.ret = "")
            => \A i \in 1..Len(last'.arg) : clock' > last'.arg[i].version
       /\ (last'.op \in {"ScanRepoSub", "SetIgnores", "Override"}
           /\ last'.repo \in DOMAIN repoCfgs)
            => \A name \in Names :
                  LET old == Get(repoFiles[last'.repo], LocalNodeID, name)
                      new == Get(repoFiles'[last'.repo], LocalNodeID, name)
                  IN new.version # old.version
                        => new.version > clock /\ new.version <= clock']_vars

\* Override has stamped a local entry while "a" is ignored and the peer's
\* replica holds an entry: the local entry carries the clock's value, above
\* the peer's version.
C16_Witness ==
    /\ last.op = "Override"
    /\ last.ret = ""
    /\ repoIgnores[last.repo] = {"a"}
    /\ \E name \in Names :
          /\ Get(repoFiles[last.repo], LocalNodeID, name).version = clock
          /\ Get(repoFiles[last.repo], "n1", name).version = MaxInVersion
          /\ clock > MaxInVersion

(***************************************************************************)
(* RemoteLocalVersion (model.go:1227-1242) of a registered repo: the sum   *)
(* of the localVersion watermarks of the replicas of repoNodes[repo].      *)
(***************************************************************************)
RECURSIVE sumLocalVersion(_, _)
sumLocalVersion(set, nodes) ==
    IF nodes = <<>> THEN 0
    ELSE LocalVersionOf(set, Head(nodes)) + sumLocalVersion(set, Tail(nodes))

RemoteLocalVersion(repo) == sumLocalVersion(repoFiles[repo], repoNodes[repo])

\* What the replicas of the peers of repo hold: the entries as announced.
RemoteContents(repo) ==
    [n \in {repoNodes[repo][i] : i \in 1..Len(repoNodes[repo])} |->
       [name \in Names |-> [Get(repoFiles[repo], n, name) EXCEPT !.localVersion = 0]]]

\* C17: RemoteLocalVersion(repo) never decreases, and it increases whenever
\* the contents of a peer replica of the repo change, through Index,
\* IndexUpdate or the retraction done by Close.
C17_RemoteVersionIncreases ==
    [][\A r \in DOMAIN repoCfgs :
          /\ RemoteLocalVersion(r)' >= RemoteLocalVersion(r)
          /\ RemoteContents(r)' # RemoteContents(r)
               => RemoteLocalVersion(r)' > RemoteLocalVersion(r)]_vars

(***************************************************************************)
(* NeedFilesRepoLimited (model.go:359-374).  needFilesVisit is the visitor *)
(* of WithNeed over the needed entries need: it appends the entry, adds    *)
(* its blocks and goes on while both limits allow.  The slice is made with *)
(* capacity maxFiles, which panics when maxFiles is negative.              *)
(***************************************************************************)
RECURSIVE needFilesVisit(_, _, _, _, _)
needFilesVisit(need, maxFiles, maxBlocks, fs, nblocks) ==
    IF need = <<>> THEN fs
    ELSE LET fs1 == Append(fs, Head(need))
             nblocks1 == nblocks + Head(need).blocks
         IN IF /\ (maxFiles <= 0 \/ Len(fs1) < maxFiles)
               /\ (maxBlocks <= 0 \/ nblocks1 < maxBlocks)
            THEN needFilesVisit(Tail(need), maxFiles, maxBlocks, fs1, nblocks1)
            ELSE fs1

needFilesRepoLimited(repo, maxFiles, maxBlocks) ==
    IF repo \notin DOMAIN repoCfgs THEN [files |-> <<>>, panic |-> FALSE]
    ELSE IF maxFiles < 0 THEN [files |-> <<>>, panic |-> TRUE]
    ELSE [files |-> needFilesVisit(WithNeed(repoFiles[repo], LocalNodeID),
                                   maxFiles, maxBlocks, <<>>, 0),
          panic |-> FALSE]

NeedFilesRepoLimited(repo, maxFiles, maxBlocks) ==
    /\ ~crashed
    /\ crashed' = needFilesRepoLimited(repo, maxFiles, maxBlocks).panic
    /\ last' = Op("NeedFilesRepoLimited", "", repo,
                  [maxFiles |-> maxFiles, maxBlocks |-> maxBlocks],
                  needFilesRepoLimited(repo, maxFiles, maxBlocks), <<>>)
    /\ UNCHANGED <<regVars, stVars, connVars, diskVars, started, cfgNodes, clock,
                   now, senders, nConns, pair, conc, running>>

MaxLimit == 2        \* the limits of NeedFilesRepoLimited are -1..MaxLimit
Limits == (0 - 1)..MaxLimit

(***************************************************************************)
(* The need list: the peer n1 announces its files for r1 and the list of   *)
(* needed files is asked for under every pair of limits.                   *)
(***************************************************************************)
NextNeed ==
    \/ Register("r1", <<"n1">>)
    \/ (nConns["n1"] = 0 /\ AddConnection("n1"))
    \/ \E fs \in SessionLists : Index("n1", "r1", fs)
    \/ \E r \in Repos, maxFiles \in Limits, maxBlocks \in Limits :
          NeedFilesRepoLimited(r, maxFiles, maxBlocks)

SpecNeed == Init /\ [][NextNeed]_vars

\* The blocks of the first i entries of fs.
RECURSIVE BlocksUpTo(_, _)
BlocksUpTo(fs, i) == IF i = 0 THEN 0 ELSE fs[i].blocks + BlocksUpTo(fs, i - 1)

\* The positions of the need list at which a positive limit is reached.
StopsAt(need, maxFiles, maxBlocks) ==
    {i \in 1..Len(need) : \/ maxFiles > 0 /\ i >= maxFiles
                          \/ maxBlocks > 0 /\ BlocksUpTo(need, i) >= maxBlocks}

\* C18: for every pair of limits, zero and negative values included,
\* NeedFilesRepoLimited returns the prefix of need(local) in traversal order
\* that ends at the first entry at which maxFiles > 0 entries are reached or
\* the cumulated block count reaches maxBlocks > 0, and the whole need list
\* when no positive limit is reached; limits <= 0 are ignored.
C18_NeedFilesPrefix ==
    (last.op = "NeedFilesRepoLimited" /\ last.repo \in DOMAIN repoCfgs)
       => LET need == WithNeed(repoFiles[last.repo], LocalNodeID)
              stops == StopsAt(need, last.arg.maxFiles, last.arg.maxBlocks)
              k == IF stops = {} THEN Len(need)
                   ELSE CHOOSE i \in stops : \A j \in stops : i <= j
          IN /\ ~last.ret.panic
             /\ last.ret.files = SubSeq(need, 1, k)

(***************************************************************************)
(* Concurrent calls: two threads call the methods of the Model in any      *)
(* order and interleave at every lock operation and map access.            *)
(***************************************************************************)
NextLocks ==
    \/ \E t \in Threads, op \in Methods : Call(t, op)
    \/ \E t \in Threads : LockRequest(t)
    \/ \E t \in Threads : LockObtain(t)
    \/ \E t \in Threads : RLockObtain(t)
    \/ \E t \in Threads : UnlockStep(t)
    \/ \E t \in Threads : RUnlockStep(t)
    \/ \E t \in Threads : Access(t)
    \/ \E t \in Threads : PerformIO(t)
    \/ \E t \in Threads : Return(t)

SpecLocks == Init /\ [][NextLocks]_vars

\* Thread t holds lock l, for writing or for reading.
Held(t, l) == conc.w[l] = t \/ conc.r[l][t] > 0

\* Thread t waits for a lock it cannot get in this state.
Blocked(t) ==
    \/ At(t, {"Lock"}) /\ t \in conc.pending[Instr(t).x] /\ ~Free(Instr(t).x)
    \/ At(t, {"RLock"}) /\ (conc.w[Instr(t).x] # NoThread \/ conc.pending[Instr(t).x] # {})

\* The threads that keep the blocked thread t from its lock.
Blockers(t) ==
    {u \in Threads : \/ Held(u, Instr(t).x)
                     \/ At(t, {"RLock"}) /\ u \in conc.pending[Instr(t).x]}

\* Some threads wait for locks that only threads among them can release.
Deadlock ==
    \E S \in SUBSET Threads \ {{}} :
       \A t \in S : Blocked(t) /\ Blockers(t) \subseteq S

\* C19: no path acquires pmut while it holds rmut or smut, nor rmut while it
\* holds smut, and none acquires a lock it already holds: a thread about to
\* acquire a lock holds only locks that come before it in the order
\* P -> R -> S; and no interleaving of the methods reaches a deadlock.
C19_LockOrderNoDeadlock ==
    /\ \A t \in Threads :
          At(t, {"Lock", "RLock"})
             => \A l \in Locks : Held(t, l) => Rank(l) < Rank(Instr(t).x)
    /\ ~Deadlock

\* One thread is in Close or AddConnection holding pmut and rmut while the
\* other waits in pmut.Lock().
C19_Witness ==
    \E t, u \in Threads :
       /\ t # u
       /\ conc.w["pmut"] = t
       /\ conc.r["rmut"][t] > 0
       /\ u \in conc.pending["pmut"]
       /\ Blocked(u)

\* C20: every write to one of the maps of the R domain is made while holding
\* rmut exclusively and every read while holding rmut at least for reading,
\* so no two calls are at accesses of the same map with one of them writing.
C20_MapsGuardedByRmut ==
    /\ \A t \in Threads :
          /\ At(t, {"read", "write"}) => Instr(t).x \in RMaps
          /\ At(t, {"write"}) => conc.w["rmut"] = t
          /\ At(t, {"read"}) => Held(t, "rmut")
    /\ \A t, u \in Threads :
          (t # u /\ At(t, {"write"}) /\ At(u, {"read", "write"}))
             => Instr(t).x # Instr(u).x

\* C21: no call performs I/O (a transport send or close, a disk read or
\* write, a write to the index store) while it holds pmut, rmut or smut.
C21_NoLockSpansIO ==
    \A t \in Threads : At(t, {"io"}) => \A l \in Locks : ~Held(t, l)

\* What the first pass of ScanRepoSub(repo, sub) leaves in the index set: the
\* files the walk yields, written in batches (model.go:1016-1039).
afterFirstPass(repo, sub) ==
    updateInBatches(repoFiles[repo],
                    walk(1, repo, sub, stignore[repo], repoFiles[repo], clock).fs,
                    scanBatchSize)

\* C22: the second pass of ScanRepoSub(r, sub) changes only local entries
\* whose names lie under sub and that were neither Deleted nor Invalid: an
\* entry matching the ignore patterns gets the Invalid flag and keeps its
\* version, an entry whose file is not on disk gets the Deleted flag and a
\* strictly greater version, and every other entry, every entry outside sub
\* included, is left as it was.
C22_SecondPassFrame ==
    [][(last'.op = "ScanRepoSub" /\ last'.ret = "nil")
          => LET repo == last'.repo
                 sub == last'.arg
                 before == afterFirstPass(repo, sub)
                 after == repoFiles'[repo]
             IN /\ \A nd \in Nodes : after.files[nd] = before.files[nd]
                /\ \A n \in Names :
                      LET f == before.files[LocalNodeID][n]
                          g == after.files[LocalNodeID][n]
                          live == /\ f.name # ""
                                  /\ Under(n, sub)
                                  /\ ~IsDeleted(f)
                                  /\ ~IsInvalid(f)
                      IN IF live /\ n \in stignore[repo]
                         THEN /\ g.name = n
                              /\ g.flags = f.flags \cup {FlagInvalid}
                              /\ g.version = f.version
                         ELSE IF live /\ disk[repo][n] = 0
                         THEN /\ g.name = n
                              /\ g.flags = f.flags \cup {FlagDeleted}
                              /\ g.version > f.version
                         ELSE g = f]_vars

(***************************************************************************)
(* One sendIndexTo call taken in stretches (model.go:823-885) over a local  *)
(* replica of any length: the entries are small files or files of about    *)
(* 800 MiB, all above the watermark and none ignored.  A stretch is one     *)
(* entry or a run of MaxRun small entries.                                 *)
(***************************************************************************)
MaxRun == 10

BatchFile(blocks) == [FileInfo(NameOrder[1], {}, 1, blocks) EXCEPT !.localVersion = 1]

Stretches ==
    {<<BatchFile(0)>>, <<BatchFile(BigBlocks)>>, [i \in 1..MaxRun |-> BatchFile(0)]}

\* The visitor called for each entry of fs in turn.
RECURSIVE sendIndexVisitAll(_, _)
sendIndexVisitAll(fs, v) ==
    IF fs = <<>> THEN v
    ELSE sendIndexVisitAll(Tail(fs), sendIndexVisit(Head(fs), 0, {}, v))

\* The call's local variables after their initialisation (model.go:826-829).
SendIndexStart(initial) ==
    /\ ~crashed
    /\ ~running.send.active
    /\ running' = [running EXCEPT !.send =
                      [NoSend EXCEPT !.active = TRUE, !.initial = initial]]
    /\ last' = Op("sendIndexTo.start", "", "", initial, "", <<>>)
    /\ UNCHANGED <<regVars, stVars, connVars, diskVars, started, cfgNodes, clock, now,
                   senders, nConns, crashed, pair, conc>>

\* WithHave hands the next entries to the visitor.
SendIndexVisit(fs) ==
    /\ ~crashed
    /\ running.send.active
    /\ LET s == running.send
           v == sendIndexVisitAll(fs,
                                  [initial |-> s.initial, batch |-> s.batch,
                                   currentBatchSize |-> s.currentBatchSize,
                                   maxLocalVer |-> s.maxLocalVer, msgs |-> <<>>])
       IN running' = [running EXCEPT !.send =
                        [active |-> TRUE, initial |-> v.initial, batch |-> v.batch,
                         currentBatchSize |-> v.currentBatchSize,
                         maxLocalVer |-> v.maxLocalVer, sent |-> v.msgs]]
    /\ last' = Op("sendIndexTo.visit", "", "", Len(fs), "", <<>>)
    /\ UNCHANGED <<regVars, stVars, connVars, diskVars, started, cfgNodes, clock, now,
                   senders, nConns, crashed, pair, conc>>

\* The replica has no further entry: the last batch (model.go:872-884).
SendIndexFinish ==
    /\ ~crashed
    /\ running.send.active
    /\ LET s == running.send
           res == sendIndexLoop(<<>>, 0, {}, s.initial, s.batch, s.currentBatchSize,
                                s.maxLocalVer, <<>>)
       IN /\ running' = [running EXCEPT !.send = [NoSend EXCEPT !.sent = res.msgs]]
          /\ last' = Op("sendIndexTo.return", "", "", <<>>, res.maxLocalVer, <<>>)
    /\ UNCHANGED <<regVars, stVars, connVars, diskVars, started, cfgNodes, clock, now,
                   senders, nConns, crashed, pair, conc>>

NextBatch ==
    \/ \E initial \in BOOLEAN : SendIndexStart(initial)
    \/ \E fs \in Stretches : SendIndexVisit(fs)
    \/ SendIndexFinish

SpecBatch == Init /\ [][NextBatch]_vars

\* The sum of the block counts in bs over the entries of batch.
RECURSIVE blocksOf(_, _)
blocksOf(batch, bs) ==
    IF bs = {} THEN 0
    ELSE LET b == CHOOSE x \in bs : TRUE
         IN b * Cardinality({i \in 1..Len(batch) : batch[i].blocks = b})
            + blocksOf(batch, bs \ {b})

\* The estimated size of a batch: 250 per entry and 40 per block.
EstimatedSize(batch) ==
    indexPerFileSize * Len(batch)
       + IndexPerBlockSize * blocksOf(batch, {batch[i].blocks : i \in 1..Len(batch)})

\* The batch was below both limits before its last entry was added.
WithinLimits(batch) ==
    /\ Len(batch) <= indexBatchSize
    /\ Len(batch) > 0
          => EstimatedSize(SubSeq(batch, 1, Len(batch) - 1)) <= indexTargetSize

\* C23: no Index or IndexUpdate message of the sender holds more than 1000
\* FileInfos, and a batch is sent as soon as it holds 1000 entries or its
\* estimated size exceeds 250 KiB, before a further entry is added to it: the
\* messages sent and the batch being filled were below both limits before
\* their last entry was added.
C23_BatchLimits ==
    /\ \A i \in 1..Len(running.send.sent) : WithinLimits(running.send.sent[i].batch)
    /\ WithinLimits(running.send.batch)
    /\ running.send.currentBatchSize = EstimatedSize(running.send.batch)

\* A message of 1000 small entries was sent because of the count, and the
\* entries that came next started a new batch.
C23_Witness ==
    /\ running.send.active
    /\ Len(running.send.sent) = 1
    /\ Len(running.send.sent[1].batch) = indexBatchSize
    /\ EstimatedSize(running.send.sent[1].batch) <= indexTargetSize
    /\ Len(running.send.batch) >= 1

\* C24: the index sender never sends an entry whose name matches the repo's
\* ignore patterns as they are at the time of sending, patterns changed after
\* the connection was established included: no message of a sendIndexTo call
\* holds an entry whose name the repo's patterns match.
C24_SenderHonoursCurrentIgnores ==
    [][last'.op \in {"sendIndexTo(initial)", "sendIndexTo"}
          => LET t == senders'[last'.node][last'.arg]
             IN \A k \in 1..Len(t.batches) :
                   \A j \in 1..Len(t.batches[k].batch) :
                      t.batches[k].batch[j].name \notin repoIgnores[t.repo]]_vars

\* C25: with no other operation changing the repo's state, a ScanRepoSub
\* call that enters Scanning has set the state back to Idle when it returns,
\* with nil or with the scanner's error; a call rejected for an invalid
\* subpath or an unknown repo does not enter Scanning.
C25_ScanRestoresIdle ==
    [][last'.op = "ScanRepoSub"
          => IF last'.ret \in {"invalid subpath", "no such repo"}
             THEN /\ UNCHANGED stVars
                  /\ \A i \in 1..Len(last'.events) :
                        last'.events[i].type # "StateChanged"
             ELSE repoState'[last'.repo] = RepoIdle]_vars

(***************************************************************************)
(* Overlapping scans: ScanRepoSub(repo, "") and Override(repo) are called  *)
(* by several goroutines (ScanRepos, SetIgnores, the periodic rescan, the  *)
(* UI).  Each call is taken in two steps, up to its setState(Scanning) and *)
(* from there to its return; running.scan[t] is the call thread t is in.   *)
(***************************************************************************)
\* ScanRepoSub up to setState(repo, RepoScanning) (model.go:989-1015).
ScanRepoSubEnter(t, repo) ==
    /\ ~crashed
    /\ running.scan[t] = NoScan
    /\ repo \in DOMAIN repoCfgs
    /\ LET s1 == setState(repoState, repoStateChanged, repo, RepoScanning, now)
       IN /\ repoIgnores' = [repoIgnores EXCEPT ![repo] = stignore[repo]]
          /\ repoState' = s1.st
          /\ repoStateChanged' = s1.ch
          /\ running' = [running EXCEPT !.scan[t] =
                            [op |-> "ScanRepoSub", repo |-> repo,
                             ignores |-> stignore[repo]]]
          /\ last' = Op("ScanRepoSub.enter", "", repo, t, "", s1.events)
    /\ UNCHANGED <<repoCfgs, repoFiles, repoNodes, nodeRepos, nodeStatRefs, connVars,
                   diskVars, started, cfgNodes, clock, now, senders, nConns, crashed,
                   pair, conc>>

\* ScanRepoSub from the walk to its return (model.go:1016-1105).
ScanRepoSubExit(t, walkErr) ==
    /\ ~crashed
    /\ running.scan[t].op = "ScanRepoSub"
    /\ LET repo == running.scan[t].repo
           p == scanPasses(repo, "", running.scan[t].ignores)
           s2 == setState(repoState, repoStateChanged, repo, RepoIdle, now)
       IN IF walkErr
          THEN /\ last' = Op("ScanRepoSub.return", "", repo, t, "walk error", <<>>)
               /\ UNCHANGED <<repoFiles, clock, stVars, diskDirty>>
          ELSE /\ p.clock <= MaxClock
               /\ p.set.lv[LocalNodeID] <= MaxLocalVer
               /\ repoFiles' = [repoFiles EXCEPT ![repo] = p.set]
               /\ clock' = p.clock
               /\ diskDirty' = [diskDirty EXCEPT ![repo] = p.dirty]
               /\ repoState' = s2.st
               /\ repoStateChanged' = s2.ch
               /\ last' = Op("ScanRepoSub.return", "", repo, t, "nil",
                             p.events \o s2.events)
    /\ running' = [running EXCEPT !.scan[t] = NoScan]
    /\ UNCHANGED <<repoCfgs, repoNodes, nodeRepos, nodeStatRefs, repoIgnores, connVars,
                   disk, stignore, started, cfgNodes, now, senders, nConns, crashed,
                   pair, conc>>

\* Override up to setState(repo, RepoScanning) (model.go:1175-1180).
OverrideEnter(t, repo) ==
    /\ ~crashed
    /\ running.scan[t] = NoScan
    /\ repo \in DOMAIN repoCfgs
    /\ LET s1 == setState(repoState, repoStateChanged, repo, RepoScanning, now)
       IN /\ repoState' = s1.st
          /\ repoStateChanged' = s1.ch
          /\ last' = Op("Override.enter", "", repo, t, "", s1.events)
    /\ running' = [running EXCEPT !.scan[t] =
                      [op |-> "Override", repo |-> repo, ignores |-> {}]]
    /\ UNCHANGED <<regVars, connVars, diskVars, started, cfgNodes, clock, now, senders,
                   nConns, crashed, pair, conc>>

\* Override from its loop to its return (model.go:1181-1207).
OverrideExit(t) ==
    /\ ~crashed
    /\ running.scan[t].op = "Override"
    /\ LET repo == running.scan[t].repo
           res == overrideLoop(WithNeed(repoFiles[repo], LocalNodeID),
                               repoFiles[repo], <<>>, clock)
           s2 == setState(repoState, repoStateChanged, repo, RepoIdle, now)
       IN /\ res.clock <= MaxClock
          /\ res.set.lv[LocalNodeID] <= MaxLocalVer
          /\ repoFiles' = [repoFiles EXCEPT ![repo] = res.set]
          /\ clock' = res.clock
          /\ repoState' = s2.st
          /\ repoStateChanged' = s2.ch
          /\ last' = Op("Override.return", "", repo, t, "", s2.events)
    /\ running' = [running EXCEPT !.scan[t] = NoScan]
    /\ UNCHANGED <<repoCfgs, repoNodes, nodeRepos, nodeStatRefs, repoIgnores, connVars,
                   diskVars, started, cfgNodes, now, senders, nConns, crashed, pair,
                   conc>>

NextOverlap ==
    \/ Register("r1", <<"n1">>)
    \/ (nConns["n1"] = 0 /\ AddConnection("n1"))
    \/ Index("n1", "r1", <<FileInfo("a", {}, 1, 1)>>)
    \/ DiskWrite("r1", "ab", 1)
    \/ \E t \in Threads : ScanRepoSubEnter(t, "r1")
    \/ \E t \in Threads, e \in BOOLEAN : ScanRepoSubExit(t, e)
    \/ \E t \in Threads : OverrideEnter(t, "r1")
    \/ \E t \in Threads : OverrideExit(t)

SpecOverlap == Init /\ [][NextOverlap]_vars

\* C26: whenever a ScanRepoSub or Override call on repo r is between its
\* entry to Scanning and its completion, State(r) reports scanning, also
\* when several such calls on r overlap.
C26_ScanningWhileAnyScanRuns ==
    \A t \in Threads :
       running.scan[t].op # "" => repoState[running.scan[t].repo] = RepoScanning

(***************************************************************************)
(* Requests from any node: r1 is shared with n1 only, n1 connects and      *)
(* disconnects, files come and go in r1's directory and in its index, and  *)
(* n1, n2 and the local node request data of r1 and of the unknown r2.     *)
(***************************************************************************)
NextRequestAny ==
    \/ Register("r1", <<"n1">>)
    \/ (nConns["n1"] = 0 /\ AddConnection("n1"))
    \/ Close("n1")
    \/ \E f \in {g \in InFiles : g.version = 1 /\ g.name = "a"} : updateLocal("r1", f)
    \/ DiskWrite("r1", "a", 1)
    \/ DiskRemove("r1", "a")
    \/ \E n \in AllNodes, r \in Repos, offset \in 0..MaxOffset, size \in 0..MaxSize :
          Request(n, r, "a", offset, size)

SpecRequestAny == Init /\ [][NextRequestAny]_vars

\* C27: Request only reads: it changes no index, sharing-graph, connection
\* or repo-state entry, and for given (repo, name, offset, size) and a given
\* model and disk state its result is the same for every nodeID, whether or
\* not that node shares the repo or is connected.
C27_RequestReadsForAnyNode ==
    [][last'.op = "Request"
          => /\ UNCHANGED allButLast
             /\ \A n \in AllNodes :
                   request(n, last'.repo, last'.arg.name, last'.arg.offset,
                           last'.arg.size) = last'.ret]_vars

\* n2, which does not share r1 and is not connected, was given the bytes of
\* a file of r1, while n1 shares r1 and is connected.
C27_Witness ==
    /\ last.op = "Request"
    /\ last.node = "n2"
    /\ last.repo = "r1"
    /\ ~repoSharedWith("r1", "n2")
    /\ "n2" \notin DOMAIN protoConn
    /\ repoSharedWith("r1", "n1")
    /\ "n1" \in DOMAIN protoConn
    /\ last.ret.err = ErrNone
    /\ last.ret.data # NoData

====
